---- MODULE Spec2Model ----
(***************************************************************************)
(* Model of the policy labeler (src/policy/policy_labeler.go): the ACL     *)
(* compiler, the slow path (GetPolicyByFirstPath) and the per-queue,       *)
(* per-tap fast path (GetPolicyByFastPath) with its nested LRU caches.     *)
(*                                                                         *)
(* Representation of machine integers.  TLC integers are 32-bit signed,    *)
(* so 64-bit packed keys are kept as tuples of their bit fields, and a     *)
(* uint32 EPC id is kept as <<bits 31..20, bits 19..0>>; an IPv4 address   *)
(* and a netmask are kept as <<bits 31..16, bits 15..0>>.  Fields that     *)
(* overlap in the Go shift expressions are OR-ed exactly as the shifts do. *)
(* Timestamps are in seconds.                                              *)
(***************************************************************************)
EXTENDS Integers, Sequences, FiniteSets, TLC

VARIABLES
    RawAcls,             \* PolicyLabel.RawAcls
    InterestProtoMaps,   \* [tap -> set of proto]
    InterestPortMaps,    \* [tap -> set of port]
    InterestGroupMaps,   \* [tap -> set of group id]
    IpNetmaskMap,        \* map net ip -> mask, as a function on its key set
    FastPolicyMaps,      \* [queue -> [tap -> lru.Cache]]
    GroupPortPolicyMaps, \* [tap -> map port key -> PolicyData]
    GroupVlanPolicyMaps, \* [tap -> map vlan key -> PolicyData]
    FirstPathHit,
    FastPathHit,
    FirstPathHitTick,
    FastPathHitTick,
    AclHitMax,
    idmap,               \* a U320IDMap
    ctl,                 \* the control thread: where it is in AddAcl or DelAcl
    wk,                  \* [worker -> where it is in a lookup, and its locals]
    last                 \* the call that produced this state, and what it returned

vars == <<RawAcls, InterestProtoMaps, InterestPortMaps, InterestGroupMaps,
          IpNetmaskMap, FastPolicyMaps, GroupPortPolicyMaps, GroupVlanPolicyMaps,
          FirstPathHit, FastPathHit, FirstPathHitTick, FastPathHitTick,
          AclHitMax, idmap, ctl, wk, last>>

compiled == <<InterestProtoMaps, InterestPortMaps, InterestGroupMaps,
              GroupPortPolicyMaps, GroupVlanPolicyMaps>>

counters == <<FirstPathHit, FastPathHit, FirstPathHitTick, FastPathHitTick,
              AclHitMax>>

----------------------------------------------------------------------------
(* Program constants *)

POLICY_TIMEOUT == 60
FAST_PATH_POLICY_MAP_SIZE_LIMIT == 1024
FAST_PATH_EPC_MAP_SIZE_LIMIT == 128
ANY_GROUP == 0
ANY_PROTO == 0
ANY_PORT == 0

\* datatype.TapType: ANY, then the concrete taps MIN .. MAX-1
TAP_ANY == 0
TAP_MIN == 1
TAP_MAX == 3
Taps == TAP_MIN .. (TAP_MAX - 1)

FORWARD == "FORWARD"
BACKWARD == "BACKWARD"
Directions == {FORWARD, BACKWARD}

\* TapType.CheckTapType: the validity gate of the compiler
CheckTapType(t) == t \in Taps

\* NewPolicyLabel(queueCount, mapSize, fastPathDisable): the configuration
QueueCount == 2
MapSize == 2
FastPathDisable == FALSE
Queues == 0 .. (QueueCount - 1)

----------------------------------------------------------------------------
(* Bit arithmetic on naturals *)

Pow20 == 1048576
Pow16 == 65536
Pow12 == 4096

RECURSIVE BitOr(_, _)
BitOr(a, b) ==
    IF a = 0 THEN b
    ELSE IF b = 0 THEN a
    ELSE (IF a % 2 = 1 \/ b % 2 = 1 THEN 1 ELSE 0) + 2 * BitOr(a \div 2, b \div 2)

RECURSIVE BitAnd(_, _)
BitAnd(a, b) ==
    IF a = 0 \/ b = 0 THEN 0
    ELSE (IF a % 2 = 1 /\ b % 2 = 1 THEN 1 ELSE 0) + 2 * BitAnd(a \div 2, b \div 2)

\* uint32(v) of a non-negative int32 v, as <<bits 31..20, bits 19..0>>
U32(v) == <<v \div Pow20, v % Pow20>>
U32Max == <<Pow12 - 1, Pow20 - 1>>

\* ip & mask on <<high 16 bits, low 16 bits>>
IpAnd(ip, mask) == <<BitAnd(ip[1], mask[1]), BitAnd(ip[2], mask[2])>>
Mask16 == <<Pow16 - 1, 0>>
\* a < b on uint32 pairs
U32Less(a, b) == a[1] < b[1] \/ (a[1] = b[1] /\ a[2] < b[2])

----------------------------------------------------------------------------
(* PolicyData: the action set and the direction tags its actions carry.    *)
(* The merge operations live in the datatype package, which is not part of *)
(* the sources at hand; they are the action-union merges of the design.    *)

EmptyPolicy == [acts |-> {}, tags |-> {}]

\* the policy of an ACL's configured action list: actions without directions
ActionsOf(actions) == [acts |-> actions, tags |-> {}]

\* PolicyData.Merge(aclActions, aclID): union, direction-preserving
Merge(d, p) == [acts |-> d.acts \cup p.acts, tags |-> d.tags \cup p.tags]

\* PolicyData.Merge(aclActions, aclID, direction): union, each merged action
\* tagged with the direction
MergeDir(d, p, direction) ==
    [acts |-> d.acts \cup p.acts,
     tags |-> d.tags \cup {<<a, direction>> : a \in p.acts}]

ReverseDirection(dir) == IF dir = FORWARD THEN BACKWARD ELSE FORWARD

\* PolicyData.MergeAndSwapDirection(aclActions, aclID)
MergeAndSwapDirection(d, p) ==
    Merge(d, [acts |-> p.acts,
              tags |-> {<<t[1], ReverseDirection(t[2])>> : t \in p.tags}])

----------------------------------------------------------------------------
(* lru.Cache: a bounded map with recency order; ll[1] is the most recent   *)
(* entry.  MaxEntries = 0 means no limit.                                  *)

LruNew(maxEntries) == [MaxEntries |-> maxEntries, ll |-> <<>>]

LruIndex(c, k) ==
    IF \E i \in 1..Len(c.ll) : c.ll[i].key = k
    THEN CHOOSE i \in 1..Len(c.ll) : c.ll[i].key = k
    ELSE 0

LruHas(c, k) == LruIndex(c, k) # 0

\* the value stored under k (k present), without touching the order
LruValue(c, k) == c.ll[LruIndex(c, k)].value

LruKeys(c) == {c.ll[i].key : i \in 1..Len(c.ll)}

SeqWithout(s, i) == [j \in 1..(Len(s) - 1) |-> IF j < i THEN s[j] ELSE s[j + 1]]

\* Cache.Get on a present key: MoveToFront
LruTouch(c, k) ==
    LET i == LruIndex(c, k)
    IN  IF i = 0 THEN c
        ELSE [c EXCEPT !.ll = <<c.ll[i]>> \o SeqWithout(c.ll, i)]

\* Cache.Add
LruAdd(c, k, v) ==
    LET i == LruIndex(c, k)
        e == [key |-> k, value |-> v]
    IN  IF i # 0
        THEN [c EXCEPT !.ll = <<e>> \o SeqWithout(c.ll, i)]
        ELSE LET l == <<e>> \o c.ll
             IN  IF c.MaxEntries # 0 /\ Len(l) > c.MaxEntries
                 THEN [c EXCEPT !.ll = SubSeq(l, 1, Len(l) - 1)]
                 ELSE [c EXCEPT !.ll = l]

\* Cache.Remove
LruRemove(c, k) ==
    LET i == LruIndex(c, k)
    IN  IF i = 0 THEN c ELSE [c EXCEPT !.ll = SeqWithout(c.ll, i)]

\* a write through the pointer the cache holds: the value changes in place
LruStore(c, k, v) ==
    LET i == LruIndex(c, k)
    IN  IF i = 0 THEN c ELSE [c EXCEPT !.ll[i].value = v]

----------------------------------------------------------------------------
(* ACL compiler.  An Acl is a record                                       *)
(*   [Id, Type, SrcGroups, DstGroups, DstPorts, Proto, Vlan, Action];      *)
(* SrcGroups and DstGroups are the value sets of the Go maps, Action is    *)
(* the set of configured actions.  DstPorts is [len, vals]: the number of  *)
(* entries of the Go map and the set of its values.                        *)

PortMap(vals) == [len |-> Cardinality(vals), vals |-> vals]
\* a port map holding 0xffff entries or more; its values are never read
FullPortMap == [len |-> 65535, vals |-> {}]

mapToSlice(in) == {item \in in : item > 0}

\* port key: [63:56 proto] [55:40 port] [39:20 src & 0xfffff] [19:0 dst & 0xfffff]
generateGroupPortKeys(srcGroups, dstGroups, port, proto) ==
    LET src == IF srcGroups = {} THEN {ANY_GROUP} ELSE srcGroups
        dst == IF dstGroups = {} THEN {ANY_GROUP} ELSE dstGroups
    IN  {<<proto, port, s % Pow20, d % Pow20>> : s \in src, d \in dst}

\* generateSearchPortKeys without the key of the port under any protocol
generateSearchPortKeys_NoAnyProto(srcGroups, dstGroups, port, proto) ==
    generateGroupPortKeys(srcGroups, dstGroups, port, proto)
    \cup (IF port # 0
          THEN generateGroupPortKeys(srcGroups, dstGroups, ANY_PORT, proto)
          ELSE {})
    \cup (IF proto # 0
          THEN generateGroupPortKeys(srcGroups, dstGroups, ANY_PORT, ANY_PROTO)
          ELSE {})

generateSearchPortKeys(srcGroups, dstGroups, port, proto) ==
    generateGroupPortKeys(srcGroups, dstGroups, port, proto)
    \cup (IF port # 0
          THEN generateGroupPortKeys(srcGroups, dstGroups, ANY_PORT, proto)
          ELSE {})
    \cup (IF proto # 0
          THEN generateGroupPortKeys(srcGroups, dstGroups, ANY_PORT, ANY_PROTO)
          ELSE {})
    \cup (IF proto # 0 /\ port # 0
          THEN generateGroupPortKeys(srcGroups, dstGroups, port, ANY_PROTO)
          ELSE {})

generateGroupPortsKeys(acl, direction) ==
    LET src == IF direction = BACKWARD THEN acl.DstGroups ELSE acl.SrcGroups
        dst == IF direction = BACKWARD THEN acl.SrcGroups ELSE acl.DstGroups
    IN  IF acl.DstPorts.len >= 65535 \/ acl.DstPorts.len = 0
        THEN generateGroupPortKeys(mapToSlice(src), mapToSlice(dst), ANY_PORT, acl.Proto)
        ELSE UNION {generateGroupPortKeys(mapToSlice(src), mapToSlice(dst), port, acl.Proto) :
                    port \in acl.DstPorts.vals}

\* vlan key: [63:48 vlan] [39:20 src & 0xfffff] [19:0 dst & 0xfffff]
generateGroupVlanKeys(srcGroups, dstGroups, vlan) ==
    LET src == IF srcGroups = {} THEN {ANY_GROUP} ELSE srcGroups
        dst == IF dstGroups = {} THEN {ANY_GROUP} ELSE dstGroups
    IN  {<<vlan, s % Pow20, d % Pow20>> : s \in src, d \in dst}

EmptyMap == [k \in {} |-> EmptyPolicy]

\* portMap[key] == nil ? new policy : existing policy, then policy.Merge(...)
PolicyAt(m, k) == IF k \in DOMAIN m THEN m[k] ELSE EmptyPolicy

MergeKeys(m, keys, actions) ==
    [k \in (DOMAIN m) \cup keys |->
        IF k \in keys THEN Merge(PolicyAt(m, k), ActionsOf(actions)) ELSE m[k]]

MergeKeysDir(m, keys, actions, direction) ==
    [k \in (DOMAIN m) \cup keys |->
        IF k \in keys THEN MergeDir(PolicyAt(m, k), ActionsOf(actions), direction)
        ELSE m[k]]

\* GenerateGroupPortMaps without the test of the rule's vlan
PortMapsWith_IgnoresVlan(portMaps, acl) ==
    IF CheckTapType(acl.Type)
    THEN [portMaps EXCEPT ![acl.Type] =
            MergeKeys(@, generateGroupPortsKeys(acl, FORWARD), acl.Action)]
    ELSE portMaps

\* the body of the loop of GenerateGroupPortMaps for one acl
PortMapsWith(portMaps, acl) ==
    IF CheckTapType(acl.Type) /\ acl.Vlan = 0
    THEN [portMaps EXCEPT ![acl.Type] =
            MergeKeys(@, generateGroupPortsKeys(acl, FORWARD), acl.Action)]
    ELSE portMaps

RECURSIVE PortMapsFold(_, _, _)
PortMapsFold(portMaps, acls, i) ==
    IF i > Len(acls) THEN portMaps
    ELSE PortMapsFold(PortMapsWith(portMaps, acls[i]), acls, i + 1)

GenerateGroupPortMaps(acls) == PortMapsFold([t \in Taps |-> EmptyMap], acls, 1)

\* GenerateGroupVlanMaps emitting the forward entries only
VlanMapsWith_ForwardOnly(vlanMaps, acl) ==
    IF CheckTapType(acl.Type) /\ acl.Vlan > 0
    THEN [vlanMaps EXCEPT ![acl.Type] =
            MergeKeysDir(@, generateGroupVlanKeys(mapToSlice(acl.SrcGroups),
                                mapToSlice(acl.DstGroups), acl.Vlan % Pow16),
                         acl.Action, FORWARD)]
    ELSE vlanMaps

\* the body of the loop of GenerateGroupVlanMaps for one acl
VlanMapsWith(vlanMaps, acl) ==
    IF CheckTapType(acl.Type) /\ acl.Vlan > 0
    THEN LET fwd == generateGroupVlanKeys(mapToSlice(acl.SrcGroups),
                        mapToSlice(acl.DstGroups), acl.Vlan % Pow16)
             bwd == generateGroupVlanKeys(mapToSlice(acl.DstGroups),
                        mapToSlice(acl.SrcGroups), acl.Vlan % Pow16)
         IN  [vlanMaps EXCEPT ![acl.Type] =
                MergeKeysDir(MergeKeysDir(@, fwd, acl.Action, FORWARD),
                             bwd, acl.Action, BACKWARD)]
    ELSE vlanMaps

RECURSIVE VlanMapsFold(_, _, _)
VlanMapsFold(vlanMaps, acls, i) ==
    IF i > Len(acls) THEN vlanMaps
    ELSE VlanMapsFold(VlanMapsWith(vlanMaps, acls[i]), acls, i + 1)

GenerateGroupVlanMaps(acls) == VlanMapsFold([t \in Taps |-> EmptyMap], acls, 1)

ValidAcls(acls, t) == {i \in 1..Len(acls) : CheckTapType(acls[i].Type) /\ acls[i].Type = t}

InterestProtoOf(acls) ==
    [t \in Taps |-> {acls[i].Proto : i \in ValidAcls(acls, t)}]

InterestPortOf(acls) ==
    [t \in Taps |-> UNION {IF acls[i].DstPorts.len < 65535 THEN acls[i].DstPorts.vals ELSE {} :
                           i \in ValidAcls(acls, t)}]

InterestGroupOf(acls) ==
    [t \in Taps |-> UNION {acls[i].DstGroups \cup acls[i].SrcGroups : i \in ValidAcls(acls, t)}]

\* the expansion loop starting one tap too late
ExpandAcl_SkipsFirstTap(acl) ==
    IF acl.Type = TAP_ANY
    THEN [i \in 1..(TAP_MAX - TAP_MIN - 1) |-> [acl EXCEPT !.Type = TAP_MIN + i]]
    ELSE <<acl>>

\* UpdateAcls, the expansion of one acl: a TAP_ANY acl is cloned per tap
ExpandAcl(acl) ==
    IF acl.Type = TAP_ANY
    THEN [i \in 1..(TAP_MAX - TAP_MIN) |-> [acl EXCEPT !.Type = TAP_MIN + i - 1]]
    ELSE <<acl>>

RECURSIVE generateAcls(_, _)
generateAcls(acls, i) ==
    IF i > Len(acls) THEN <<>>
    ELSE ExpandAcl(acls[i]) \o generateAcls(acls, i + 1)

\* the compiled table family UpdateAcls(acls) publishes
Compiled(acls) ==
    LET gen == generateAcls(acls, 1)
    IN  [port |-> GenerateGroupPortMaps(gen),
         vlan |-> GenerateGroupVlanMaps(gen),
         proto |-> InterestProtoOf(gen),
         ports |-> InterestPortOf(gen),
         groups |-> InterestGroupOf(gen)]

----------------------------------------------------------------------------
(* Lookup keys.  A LookupKey (packet) is a record                          *)
(*   [Tap, Timestamp, FastIndex, SrcMac, DstMac, SrcIp, DstIp, SrcPort,    *)
(*    DstPort, Vlan, Proto];                                               *)
(* an EndpointData is [SrcInfo, DstInfo], an EndpointInfo is               *)
(*   [GroupIds, L2EpcId, L3EpcId].                                         *)

\* the table family a lookup reads
Tables ==
    [port |-> GroupPortPolicyMaps, vlan |-> GroupVlanPolicyMaps,
     proto |-> InterestProtoMaps, ports |-> InterestPortMaps,
     groups |-> InterestGroupMaps]

\* getFastInterestKeys: uninteresting ports and proto become the wildcard
getFastInterestKeys(c, packet) ==
    [packet EXCEPT
        !.SrcPort = IF packet.SrcPort \in c.ports[packet.Tap] THEN @ ELSE ANY_PORT,
        !.DstPort = IF packet.DstPort \in c.ports[packet.Tap] THEN @ ELSE ANY_PORT,
        !.Proto = IF packet.Proto \in c.proto[packet.Tap] THEN @ ELSE ANY_PROTO]

\* generateInterestKeys, one side: the interesting group ids, and ANY_GROUP
InterestGroupIds(c, tap, groupIds) ==
    {id \in groupIds : id \in c.groups[tap]} \cup {ANY_GROUP}

SwapEndpoint(e) == [SrcInfo |-> e.DstInfo, DstInfo |-> e.SrcInfo]

\* what a nil *EndpointData is written as; never read when a lookup missed
NoInfo == [GroupIds |-> {}, L2EpcId |-> 0, L3EpcId |-> 0]
NoEndpoint == [SrcInfo |-> NoInfo, DstInfo |-> NoInfo]

\* fast port-key: srcEpc<<44 | dstEpc<<24 | proto<<16 | port, on uint64, as
\* <<bits 63..56, bits 55..44, bits 43..24, bits 23..16, bits 15..0>>
FastPortKey(srcEpc, dstEpc, proto, port) ==
    <<srcEpc[2] \div Pow12, BitOr(srcEpc[2] % Pow12, dstEpc[1]), dstEpc[2], proto, port>>

\* fast vlan-key: vlan | first<<32 | second<<12, on uint64, as
\* <<bits 63..52, bits 51..44, bits 43..32, bits 31..16, bits 15..12, bits 11..0>>
FastVlanKey(vlan, first, second) ==
    <<first[1], first[2] \div Pow12, BitOr(first[2] % Pow12, second[1]),
      second[2] \div 16, BitOr(second[2] % 16, vlan \div Pow12), vlan % Pow12>>

NetmaskOf(netIp) == IF netIp \in DOMAIN IpNetmaskMap THEN IpNetmaskMap[netIp] ELSE <<0, 0>>

MaskFor(ip) ==
    LET m == NetmaskOf(IpAnd(ip, Mask16))
    IN  IF U32Less(m, Mask16) THEN Mask16 ELSE m

\* fast subnet-key: maskedDstIp<<32 | maskedSrcIp
SubnetKey(packet, direction) ==
    LET maskedSrcIp == IpAnd(packet.SrcIp, MaskFor(packet.SrcIp))
        maskedDstIp == IpAnd(packet.DstIp, MaskFor(packet.DstIp))
    IN  IF direction = BACKWARD
        THEN <<maskedSrcIp, maskedDstIp>>
        ELSE <<maskedDstIp, maskedSrcIp>>

NewVlanAndPortMap ==
    [macEpcMap |-> LruNew(FAST_PATH_EPC_MAP_SIZE_LIMIT),
     vlanPolicyMap |-> LruNew(FAST_PATH_POLICY_MAP_SIZE_LIMIT),
     portPolicyMap |-> LruNew(FAST_PATH_POLICY_MAP_SIZE_LIMIT)]

\* getVlanAndPortMap on fm = FastPolicyMaps[FastIndex][Tap]: the cache after
\* the call, the key, and whether a VlanAndPortMap is returned
getVlanAndPortMapAt(fm, key, create) ==
    IF LruHas(fm, key) THEN [fm |-> LruTouch(fm, key), key |-> key, ok |-> TRUE]
    ELSE IF create
    THEN [fm |-> LruAdd(fm, key, NewVlanAndPortMap), key |-> key, ok |-> TRUE]
    ELSE [fm |-> fm, key |-> key, ok |-> FALSE]

getVlanAndPortMap(fm, packet, direction, create) ==
    getVlanAndPortMapAt(fm, SubnetKey(packet, direction), create)

EpcId(endpointInfo) ==
    IF endpointInfo.L2EpcId > 0 THEN U32(endpointInfo.L2EpcId)
    ELSE IF endpointInfo.L2EpcId = 0
    THEN IF endpointInfo.L3EpcId > 0 THEN U32(endpointInfo.L3EpcId)
         ELSE IF endpointInfo.L3EpcId = -1 THEN U32Max
         ELSE U32(ANY_GROUP)
    ELSE U32(ANY_GROUP)

addEpcMap(maps, endpointInfo, mac) ==
    [maps |-> [maps EXCEPT !.macEpcMap = LruAdd(@, mac, EpcId(endpointInfo))],
     id |-> EpcId(endpointInfo)]

addVlanFastPolicy(fm, endpointData, packet, policy) ==
    LET gf == getVlanAndPortMap(fm, packet, FORWARD, TRUE)
        f1 == addEpcMap(LruValue(gf.fm, gf.key), endpointData.SrcInfo, packet.SrcMac)
        f2 == addEpcMap(f1.maps, endpointData.DstInfo, packet.DstMac)
        valueForward == [endpoint |-> endpointData,
                         policy |-> Merge(EmptyPolicy, policy),
                         timestamp |-> packet.Timestamp]
        mapsF == [f2.maps EXCEPT !.vlanPolicyMap =
                    LruAdd(@, FastVlanKey(packet.Vlan, f1.id, f2.id), valueForward)]
        fmF == LruStore(gf.fm, gf.key, mapsF)
        gb == getVlanAndPortMap(fmF, packet, BACKWARD, TRUE)
        b1 == addEpcMap(LruValue(gb.fm, gb.key), endpointData.SrcInfo, packet.SrcMac)
        b2 == addEpcMap(b1.maps, endpointData.DstInfo, packet.DstMac)
        valueBackward == [endpoint |-> SwapEndpoint(endpointData),
                          policy |-> MergeAndSwapDirection(EmptyPolicy, policy),
                          timestamp |-> packet.Timestamp]
        mapsB == [b2.maps EXCEPT !.vlanPolicyMap =
                    LruAdd(@, FastVlanKey(packet.Vlan, b2.id, b1.id), valueBackward)]
    IN  LruStore(gb.fm, gb.key, mapsB)

addPortFastPolicy(fm, endpointData, packet, policy, direction) ==
    LET g == getVlanAndPortMap(fm, packet, direction, TRUE)
        m1 == addEpcMap(LruValue(g.fm, g.key), endpointData.SrcInfo, packet.SrcMac)
        m2 == addEpcMap(m1.maps, endpointData.DstInfo, packet.DstMac)
        srcEpc == IF direction = BACKWARD THEN m2.id ELSE m1.id
        dstEpc == IF direction = BACKWARD THEN m1.id ELSE m2.id
        port == IF direction = BACKWARD THEN packet.SrcPort ELSE packet.DstPort
        value == [endpoint |-> IF direction = BACKWARD THEN SwapEndpoint(endpointData)
                               ELSE endpointData,
                  policy |-> Merge(EmptyPolicy, policy),
                  timestamp |-> packet.Timestamp]
        maps == [m2.maps EXCEPT !.portPolicyMap =
                    LruAdd(@, FastPortKey(srcEpc, dstEpc, packet.Proto, port), value)]
    IN  LruStore(g.fm, g.key, maps)

\* the freshness check expiring an entry that is younger than the packet too
Stale_OutOfOrder(value, packet) ==
    value.timestamp > packet.Timestamp
    \/ packet.Timestamp - value.timestamp > POLICY_TIMEOUT

\* the freshness check expiring an entry at POLICY_TIMEOUT already
Stale_AtTimeout(value, packet) ==
    value.timestamp < packet.Timestamp
    /\ packet.Timestamp - value.timestamp >= POLICY_TIMEOUT

\* the freshness check of getFastPortPolicy and getFastVlanPolicy
Stale(value, packet) ==
    value.timestamp < packet.Timestamp
    /\ packet.Timestamp - value.timestamp > POLICY_TIMEOUT

\* the two macEpcMap.Get calls that open both sub-lookups: the map after
\* them, whether both MACs were known, and the EPC ids read
MacLookup(maps, packet) ==
    IF ~LruHas(maps.macEpcMap, packet.SrcMac)
    THEN [maps |-> maps, ok |-> FALSE, srcEpc |-> U32(0), dstEpc |-> U32(0)]
    ELSE LET c1 == LruTouch(maps.macEpcMap, packet.SrcMac)
         IN  IF ~LruHas(c1, packet.DstMac)
             THEN [maps |-> [maps EXCEPT !.macEpcMap = c1], ok |-> FALSE,
                   srcEpc |-> U32(0), dstEpc |-> U32(0)]
             ELSE [maps |-> [maps EXCEPT !.macEpcMap = LruTouch(c1, packet.DstMac)],
                   ok |-> TRUE,
                   srcEpc |-> LruValue(c1, packet.SrcMac),
                   dstEpc |-> LruValue(c1, packet.DstMac)]

\* getFastPortPolicy: the maps after the call, the endpoint returned (ok is
\* FALSE for nil) and the policy merged into
\* m is the outcome of the MAC lookups, key the fast port-key
getFastPortPolicyAt(m, key, packet, direction, policy) ==
    LET miss == [maps |-> m.maps, ok |-> FALSE, endpoint |-> NoEndpoint, policy |-> policy]
        c == LruTouch(m.maps.portPolicyMap, key)
        value == LruValue(m.maps.portPolicyMap, key)
    IN  IF ~m.ok THEN miss
        ELSE IF ~LruHas(m.maps.portPolicyMap, key) THEN miss
        ELSE IF Stale(value, packet)
        THEN [miss EXCEPT !.maps = [m.maps EXCEPT !.portPolicyMap = LruRemove(c, key)]]
        ELSE [maps |-> [m.maps EXCEPT !.portPolicyMap =
                           LruStore(c, key, [value EXCEPT !.timestamp = packet.Timestamp])],
              ok |-> TRUE,
              endpoint |-> IF direction = BACKWARD THEN SwapEndpoint(value.endpoint)
                           ELSE value.endpoint,
              policy |-> MergeDir(policy, value.policy, direction)]

getFastPortPolicyKey(m, packet, direction) ==
    FastPortKey(IF direction = BACKWARD THEN m.dstEpc ELSE m.srcEpc,
                IF direction = BACKWARD THEN m.srcEpc ELSE m.dstEpc,
                packet.Proto,
                IF direction = BACKWARD THEN packet.SrcPort ELSE packet.DstPort)

getFastPortPolicyFrom(m, packet, direction, policy) ==
    getFastPortPolicyAt(m, getFastPortPolicyKey(m, packet, direction), packet,
                        direction, policy)

getFastPortPolicy(maps, packet, direction, policy) ==
    getFastPortPolicyFrom(MacLookup(maps, packet), packet, direction, policy)

\* m is the outcome of the MAC lookups, key the fast vlan-key
getFastVlanPolicyAt(m, key, packet, direction, policy) ==
    LET miss == [maps |-> m.maps, ok |-> FALSE, endpoint |-> NoEndpoint, policy |-> policy]
        c == LruTouch(m.maps.vlanPolicyMap, key)
        value == LruValue(m.maps.vlanPolicyMap, key)
    IN  IF ~m.ok THEN miss
        ELSE IF ~LruHas(m.maps.vlanPolicyMap, key) THEN miss
        ELSE IF Stale(value, packet)
        THEN [miss EXCEPT !.maps = [m.maps EXCEPT !.vlanPolicyMap = LruRemove(c, key)]]
        ELSE [maps |-> [m.maps EXCEPT !.vlanPolicyMap =
                           LruStore(c, key, [value EXCEPT !.timestamp = packet.Timestamp])],
              ok |-> TRUE,
              endpoint |-> IF direction = BACKWARD THEN SwapEndpoint(value.endpoint)
                           ELSE value.endpoint,
              policy |-> Merge(policy, value.policy)]

getFastVlanPolicyKey(m, packet, direction) ==
    FastVlanKey(packet.Vlan,
                IF direction = BACKWARD THEN m.dstEpc ELSE m.srcEpc,
                IF direction = BACKWARD THEN m.srcEpc ELSE m.dstEpc)

getFastVlanPolicyFrom(m, packet, direction, policy) ==
    getFastVlanPolicyAt(m, getFastVlanPolicyKey(m, packet, direction), packet,
                        direction, policy)

getFastVlanPolicy(maps, packet, direction, policy) ==
    getFastVlanPolicyFrom(MacLookup(maps, packet), packet, direction, policy)

\* one round of the direction loop of GetPolicyByFastPath, on
\* st = [fm, policy, endpoint, portForwardFound, portBackwardFound, vlanFound]
\* the vlan lookup of a round, made for a tagged packet in the forward round
FastPathRoundVlan(st, maps, packet, direction) ==
    IF packet.Vlan > 0 /\ direction = FORWARD
    THEN getFastVlanPolicy(maps, packet, direction, st.policy)
    ELSE [maps |-> maps, ok |-> st.vlanFound, endpoint |-> st.endpoint,
          policy |-> st.policy]

\* the state after a round, from the outcomes v and p of its two lookups
FastPathRoundEnd(st, g, v, p, direction) ==
    [fm |-> LruStore(g.fm, g.key, p.maps),
     policy |-> p.policy,
     endpoint |-> p.endpoint,
     portForwardFound |-> IF direction = FORWARD THEN p.ok ELSE st.portForwardFound,
     portBackwardFound |-> IF direction = BACKWARD THEN p.ok ELSE st.portBackwardFound,
     vlanFound |-> v.ok]

FastPathRoundPort(st, g, v, packet, direction) ==
    FastPathRoundEnd(st, g, v, getFastPortPolicy(v.maps, packet, direction, v.policy),
                     direction)

FastPathRoundIn(st, g, packet, direction) ==
    IF ~g.ok THEN st
    ELSE FastPathRoundPort(st, g,
            FastPathRoundVlan(st, LruValue(g.fm, g.key), packet, direction),
            packet, direction)

FastPathRound(st, packet, direction) ==
    FastPathRoundIn(st, getVlanAndPortMap(st.fm, packet, direction, FALSE),
                    packet, direction)

\* GetPolicyByFastPath past the FastPathDisable test: the cache after the
\* call, whether it is a hit, and the endpoint and policy returned
FastPathStart(fm) ==
    [fm |-> fm, policy |-> EmptyPolicy, endpoint |-> NoEndpoint,
     portForwardFound |-> FALSE, portBackwardFound |-> FALSE, vlanFound |-> TRUE]

FastPathRounds(fm, packet) ==
    FastPathRound(FastPathRound(FastPathStart(fm), packet, FORWARD), packet, BACKWARD)

FastPathEnd(st, packet) ==
    LET found == st.portForwardFound /\ st.portBackwardFound /\ st.vlanFound
    IN  [fm |-> st.fm, found |-> found,
         endpoint |-> IF found THEN st.endpoint ELSE NoEndpoint,
         policy |-> IF found THEN st.policy ELSE EmptyPolicy,
         packet |-> packet]

FastPathKeyed(fm, packet) == FastPathEnd(FastPathRounds(fm, packet), packet)

FastPathLookup(c, fm, packet0) == FastPathKeyed(fm, getFastInterestKeys(c, packet0))

\* the keys of the forward port lookup of GetPolicyByFirstPath
searchKeysForward(packet, SrcGroupIds, DstGroupIds) ==
    generateSearchPortKeys(SrcGroupIds, DstGroupIds, packet.DstPort, packet.Proto)

\* the backward port lookup searching under the destination port
searchKeysBackward_DstPort(packet, SrcGroupIds, DstGroupIds) ==
    generateSearchPortKeys(DstGroupIds, SrcGroupIds, packet.DstPort, packet.Proto)

\* the keys of the backward port lookup of GetPolicyByFirstPath
searchKeysBackward(packet, SrcGroupIds, DstGroupIds) ==
    generateSearchPortKeys(DstGroupIds, SrcGroupIds, packet.SrcPort, packet.Proto)

\* the lookups of GetPolicyByFirstPath in the compiled maps
FirstPathFind(c, endpointData, packet0) ==
    LET packet == getFastInterestKeys(c, packet0)
        SrcGroupIds == InterestGroupIds(c, packet.Tap, endpointData.SrcInfo.GroupIds)
        DstGroupIds == InterestGroupIds(c, packet.Tap, endpointData.DstInfo.GroupIds)
        portGroup == c.port[packet.Tap]
        vlanGroup == c.vlan[packet.Tap]
        vlanKeys == IF packet.Vlan > 0
                    THEN generateGroupVlanKeys(SrcGroupIds, DstGroupIds, packet.Vlan)
                         \cap DOMAIN vlanGroup
                    ELSE {}
        fwdKeys == searchKeysForward(packet, SrcGroupIds, DstGroupIds) \cap DOMAIN portGroup
        bwdKeys == searchKeysBackward(packet, SrcGroupIds, DstGroupIds) \cap DOMAIN portGroup
        vlanPolicy == [acts |-> UNION {vlanGroup[k].acts : k \in vlanKeys},
                       tags |-> UNION {vlanGroup[k].tags : k \in vlanKeys}]
        forward == [acts |-> UNION {portGroup[k].acts : k \in fwdKeys},
                    tags |-> {<<a, FORWARD>> : a \in UNION {portGroup[k].acts : k \in fwdKeys}}]
        backward == [acts |-> UNION {portGroup[k].acts : k \in bwdKeys},
                     tags |-> {<<a, BACKWARD>> : a \in UNION {portGroup[k].acts : k \in bwdKeys}}]
        find1 == IF forward.acts # {} THEN MergeDir(vlanPolicy, forward, FORWARD)
                 ELSE vlanPolicy
        find2 == IF backward.acts # {} THEN MergeDir(find1, backward, BACKWARD)
                 ELSE find1
    IN  [packet |-> packet, vlanPolicy |-> vlanPolicy, forward |-> forward,
         backward |-> backward, findPolicy |-> find2,
         found |-> (vlanKeys # {} \/ fwdKeys # {} \/ bwdKeys # {})]

\* FirstPath seeding nothing when no rule matched
FirstPathSeed_OnlyFound(fm, endpointData, f) ==
    IF f.found
    THEN addPortFastPolicy(
            addPortFastPolicy(
                IF f.packet.Vlan > 0
                THEN addVlanFastPolicy(fm, endpointData, f.packet, f.vlanPolicy)
                ELSE fm,
                endpointData, f.packet, f.forward, FORWARD),
            endpointData, f.packet, f.backward, BACKWARD)
    ELSE fm

\* the fast-path seeding of GetPolicyByFirstPath on fm = FastPolicyMaps[FastIndex][Tap]
FirstPathSeed(fm, endpointData, f) ==
    LET fm1 == IF f.packet.Vlan > 0
               THEN addVlanFastPolicy(fm, endpointData, f.packet, f.vlanPolicy)
               ELSE fm
        fm2 == addPortFastPolicy(fm1, endpointData, f.packet, f.forward, FORWARD)
    IN  addPortFastPolicy(fm2, endpointData, f.packet, f.backward, BACKWARD)

----------------------------------------------------------------------------
(* U320IDMap: a hash map from a 40-byte key to a uint32 value.  The caller *)
(* passes the key's hash; a key is kept in the chain of slot hash % width  *)
(* and is found there by its hash and its bytes.                           *)

BitXor(a, b) == BitOr(a, b) - BitAnd(a, b)

\* the two 64-bit words the test writes into the key, each as <<high 32
\* bits, low 32 bits>>, and the hash it folds from the four halves
newNode(key0, key1) ==
    [key |-> <<key0, key1>>,
     hash |-> BitXor(BitXor(key0[1], key0[2]), BitXor(key1[1], key1[2]))]

\* NewU320IDMap(4)
IDMapWidth == 4

NewU320IDMap == [slots |-> [s \in 0..(IDMapWidth - 1) |-> <<>>], size |-> 0]

\* a chain lookup that compares the hash only
IDMapFind_HashOnly(chain, key, hash) ==
    IF \E i \in 1..Len(chain) : chain[i].hash = hash
    THEN CHOOSE i \in 1..Len(chain) :
            /\ chain[i].hash = hash
            /\ \A j \in 1..(i - 1) : chain[j].hash # hash
    ELSE 0

\* the position in the chain of the node with this hash and these key bytes,
\* 0 when there is none
IDMapFind(chain, key, hash) ==
    IF \E i \in 1..Len(chain) : chain[i].hash = hash /\ chain[i].key = key
    THEN CHOOSE i \in 1..Len(chain) :
            /\ chain[i].hash = hash /\ chain[i].key = key
            /\ \A j \in 1..(i - 1) : ~(chain[j].hash = hash /\ chain[j].key = key)
    ELSE 0

IDMapAddOrGetAt(m, s, i, key, hash, value, overwrite) ==
    IF i = 0
    THEN [m |-> [slots |-> [m.slots EXCEPT ![s] =
                              Append(@, [key |-> key, hash |-> hash, value |-> value])],
                 size |-> m.size + 1],
          value |-> value, added |-> TRUE]
    ELSE IF overwrite
    THEN [m |-> [m EXCEPT !.slots[s][i].value = value], value |-> value, added |-> FALSE]
    ELSE [m |-> m, value |-> m.slots[s][i].value, added |-> FALSE]

\* m.AddOrGet(key, hash, value, overwrite): the map left, the value and the
\* flag returned
IDMapAddOrGet(m, key, hash, value, overwrite) ==
    IDMapAddOrGetAt(m, hash % IDMapWidth,
                    IDMapFind(m.slots[hash % IDMapWidth], key, hash),
                    key, hash, value, overwrite)

IDMapGetAt(m, s, i) ==
    IF i = 0 THEN [value |-> 0, in |-> FALSE]
    ELSE [value |-> m.slots[s][i].value, in |-> TRUE]

\* m.Get(key, hash)
IDMapGet(m, key, hash) ==
    IDMapGetAt(m, hash % IDMapWidth, IDMapFind(m.slots[hash % IDMapWidth], key, hash))

\* m.Clear()
IDMapClear(m) == NewU320IDMap

\* m.Size()
IDMapSize(m) == m.size

----------------------------------------------------------------------------
(* Operations of PolicyLabel.  Every action also records the call in last: *)
(* op, the LookupKey K and EndpointData E passed, whether the lookup found *)
(* something (ok), the endpoint (ep) and policy returned, and the acl list *)
(* or id passed (arg).                                                     *)

NoKey ==
    [Tap |-> TAP_MIN, Timestamp |-> 0, FastIndex |-> 0, SrcMac |-> 0, DstMac |-> 0,
     SrcIp |-> <<0, 0>>, DstIp |-> <<0, 0>>, SrcPort |-> 0, DstPort |-> 0,
     Vlan |-> 0, Proto |-> 0]

Call(op, K, E, ok, ep, policy, arg) ==
    [op |-> op, K |-> K, E |-> E, ok |-> ok, ep |-> ep, policy |-> policy, arg |-> arg]

ControlCall(op, arg) == Call(op, NoKey, NoEndpoint, FALSE, NoEndpoint, EmptyPolicy, arg)

\* the threads while no call of theirs is under way
Workers == {1, 2}

IdleControl(acls) == [pc |-> "idle", old |-> acls, call |-> ControlCall("NewPolicyLabel", 0)]

\* the tables NewPolicyLabel leaves, which a worker that has read none holds
NoTables ==
    [port |-> [t \in Taps |-> EmptyMap], vlan |-> [t \in Taps |-> EmptyMap],
     proto |-> [t \in Taps |-> {}], ports |-> [t \in Taps |-> {}],
     groups |-> [t \in Taps |-> {}]]

IdleWorker ==
    [pc |-> "idle", K |-> NoKey, E |-> NoEndpoint, c |-> NoTables,
     endpoint |-> NoEndpoint, policy |-> EmptyPolicy, hitData |-> 0]

threads == <<ctl, wk>>

\* a call made as a whole, no other thread running in between
Record(call) == last' = call /\ UNCHANGED <<idmap, threads>>

\* a statement of a call that has not returned yet
Step == ControlCall("step", 0)

\* UpdateAcls: RawAcls and the five compiled tables
Publish(acls) ==
    \E c \in {Compiled(acls)} :
        /\ RawAcls' = acls
        /\ GroupPortPolicyMaps' = c.port
        /\ GroupVlanPolicyMaps' = c.vlan
        /\ InterestGroupMaps' = c.groups
        /\ InterestProtoMaps' = c.proto
        /\ InterestPortMaps' = c.ports

\* FlushAcls with the queue loop starting one too late
Flushed_SkipsFirstQueue ==
    [i \in Queues |-> [j \in Taps |->
        IF i = 0 THEN FastPolicyMaps[i][j] ELSE LruNew(MapSize)]]

\* FlushAcls with the tap loop ending one too early
Flushed_SkipsLastTap ==
    [i \in Queues |-> [j \in Taps |->
        IF j = TAP_MAX - 1 THEN FastPolicyMaps[i][j] ELSE LruNew(MapSize)]]

\* FlushAcls: every (queue, tap) cache replaced by lru.New(MapSize)
Flushed == [i \in Queues |-> [j \in Taps |-> LruNew(MapSize)]]

\* DelAcl taking the id for a zero-based index
DelAclList_ZeroBased(acls, id) ==
    IF id + 1 >= Len(acls)
    THEN SubSeq(acls, 1, Len(acls) - 1)
    ELSE SubSeq(acls, 1, id) \o SubSeq(acls, id + 2, Len(acls))

\* DelAcl: the list handed to UpdateAcls for an id in range
DelAclList(acls, id) ==
    IF id = Len(acls)
    THEN SubSeq(acls, 1, id - 1)
    ELSE SubSeq(acls, 1, id - 1) \o SubSeq(acls, id + 1, Len(acls))

Init ==
    /\ RawAcls = <<>>
    /\ InterestProtoMaps = [t \in Taps |-> {}]
    /\ InterestPortMaps = [t \in Taps |-> {}]
    /\ InterestGroupMaps = [t \in Taps |-> {}]
    /\ GroupPortPolicyMaps = [t \in Taps |-> EmptyMap]
    /\ GroupVlanPolicyMaps = [t \in Taps |-> EmptyMap]
    /\ IpNetmaskMap = [k \in {} |-> <<0, 0>>]
    /\ FastPolicyMaps = [i \in Queues |-> [j \in Taps |-> LruNew(MapSize)]]
    /\ FirstPathHit = 0
    /\ FastPathHit = 0
    /\ FirstPathHitTick = 0
    /\ FastPathHitTick = 0
    /\ AclHitMax = 0
    /\ idmap = NewU320IDMap
    /\ ctl = IdleControl(<<>>)
    /\ wk = [w \in Workers |-> IdleWorker]
    /\ last = ControlCall("NewPolicyLabel", 0)

UpdateAcls(acls) ==
    /\ Publish(acls)
    /\ UNCHANGED <<IpNetmaskMap, FastPolicyMaps, counters>>
    /\ Record(ControlCall("UpdateAcls", acls))

FlushAcls ==
    /\ FastPolicyMaps' = Flushed
    /\ UNCHANGED <<RawAcls, compiled, IpNetmaskMap, counters>>
    /\ Record(ControlCall("FlushAcls", 0))

AddAcl(acl) ==
    /\ Publish(Append(RawAcls, acl))
    /\ FastPolicyMaps' = Flushed
    /\ UNCHANGED <<IpNetmaskMap, counters>>
    /\ Record(ControlCall("AddAcl", acl))

DelAcl(id) ==
    /\ IF id > Len(RawAcls) \/ id <= 0
       THEN UNCHANGED <<RawAcls, compiled, FastPolicyMaps>>
       ELSE /\ Publish(DelAclList(RawAcls, id))
            /\ FastPolicyMaps' = Flushed
    /\ UNCHANGED <<IpNetmaskMap, counters>>
    /\ Record(ControlCall("DelAcl", id))

GetPolicyByFirstPath(E, K) ==
    \E f \in {FirstPathFind(Tables, E, K)} :
        /\ FastPolicyMaps' = [FastPolicyMaps EXCEPT ![K.FastIndex][K.Tap] =
                                FirstPathSeed(@, E, f)]
        /\ FirstPathHit' = FirstPathHit + 1
        /\ FirstPathHitTick' = FirstPathHitTick + 1
        /\ UNCHANGED <<RawAcls, compiled, IpNetmaskMap, FastPathHit, FastPathHitTick,
                       AclHitMax>>
        /\ Record(Call("FirstPath", K, E, f.found, E,
                       IF f.found THEN f.findPolicy ELSE EmptyPolicy, 0))

GetPolicyByFastPath(K) ==
    IF FastPathDisable
    THEN /\ UNCHANGED <<RawAcls, compiled, IpNetmaskMap, FastPolicyMaps, counters>>
         /\ Record(Call("FastPath", K, NoEndpoint, FALSE, NoEndpoint, EmptyPolicy, 0))
    ELSE \E r \in {FastPathLookup(Tables, FastPolicyMaps[K.FastIndex][K.Tap], K)} :
             /\ FastPolicyMaps' = [FastPolicyMaps EXCEPT ![K.FastIndex][K.Tap] = r.fm]
             /\ IF r.found
                THEN /\ FastPathHit' = FastPathHit + 1
                     /\ FastPathHitTick' = FastPathHitTick + 1
                     /\ AclHitMax' = IF AclHitMax < Cardinality(r.policy.acts)
                                     THEN Cardinality(r.policy.acts) ELSE AclHitMax
                ELSE UNCHANGED <<FastPathHit, FastPathHitTick, AclHitMax>>
             /\ UNCHANGED <<RawAcls, compiled, IpNetmaskMap, FirstPathHit, FirstPathHitTick>>
             /\ Record(Call("FastPath", K, NoEndpoint, r.found, r.endpoint, r.policy, 0))

----------------------------------------------------------------------------
(* The netmask learner.  A PlatformData is the sequence of its Ips, each   *)
(* [Ip, Netmask] with Ip as <<bits 31..16, bits 15..0>>; an IpGroupData is *)
(* the sequence of its Ips, each the text of a prefix.  A text is kept as  *)
(* what the parsers make of it: [parts, addr, size], the number of parts   *)
(* strings.Split(raw, "/") gives, the four bytes net.ParseIP finds in      *)
(* parts[0], and the outcome of strconv.Atoi(parts[1]) as [n, err].        *)

\* uint32(math.MaxUint32) << (32 - n) as <<bits 31..16, bits 15..0>>.  The
\* shift count is unsigned: for n = 0 it is 32, for n > 32 or n < 0 it
\* wraps to a count above 32, and a count of 32 or more leaves no bit.
NetmaskBits(n) ==
    IF n < 1 \/ n > 32 THEN <<0, 0>>
    ELSE IF n <= 16 THEN <<Pow16 - 2^(16 - n), 0>>
    ELSE <<Pow16 - 1, Pow16 - 2^(32 - n)>>

\* IpToUint32 of a parsed IPv4 address
IpToUint32(addr) == <<addr[1] * 256 + addr[2], addr[3] * 256 + addr[4]>>

\* maskMap[netIp]: the zero value for an absent key
MaskAt(maskMap, netIp) ==
    IF netIp \in DOMAIN maskMap THEN maskMap[netIp] ELSE <<0, 0>>

\* maskMap[netIp] = mask
MaskPut(maskMap, netIp, mask) ==
    (netIp :> mask) @@ maskMap

\* if maskMap[netIp] < mask { maskMap[netIp] = mask }
MaskRaise(maskMap, netIp, mask) ==
    IF U32Less(MaskAt(maskMap, netIp), mask) THEN MaskPut(maskMap, netIp, mask)
    ELSE maskMap

makeIpNetmaskMap(table) ==
    [k \in {n \in DOMAIN table : U32Less(<<0, 0>>, table[n])} |-> table[k]]

\* the seed pass recording a mask only at a bucket that has none yet
SeedNetwork_KeepsFirst(maskMap, ip, mask) ==
    IF ~U32Less(mask, Mask16) /\ MaskAt(maskMap, IpAnd(ip, Mask16)) = <<0, 0>>
    THEN MaskPut(maskMap, IpAnd(ip, Mask16), mask)
    ELSE maskMap

\* the seed pass without the test mask >= 0xffff0000
SeedNetwork_NoFloor(maskMap, ip, mask) ==
    IF U32Less(MaskAt(maskMap, IpAnd(ip, Mask16)), mask)
    THEN MaskPut(maskMap, IpAnd(ip, Mask16), mask)
    ELSE maskMap

\* the body of the seed pass, for a prefix ip with mask mask
SeedNetwork(maskMap, ip, mask) ==
    IF ~U32Less(mask, Mask16) /\ U32Less(MaskAt(maskMap, IpAnd(ip, Mask16)), mask)
    THEN MaskPut(maskMap, IpAnd(ip, Mask16), mask)
    ELSE maskMap

\* the body of the refine pass for an address ip, mask being the mask its
\* /16 bucket has
RefineAt(maskMap, ip, mask) == MaskRaise(maskMap, IpAnd(ip, mask), mask)

RefineNetwork(maskMap, ip) == RefineAt(maskMap, ip, MaskAt(maskMap, IpAnd(ip, Mask16)))

RECURSIVE SeedIps(_, _, _)
SeedIps(maskMap, ips, i) ==
    IF i > Len(ips) THEN maskMap
    ELSE CHOOSE seeded \in {SeedIps(m, ips, i + 1) :
                              m \in {SeedNetwork(maskMap, ips[i].Ip, NetmaskBits(ips[i].Netmask))}} : TRUE

RECURSIVE SeedPlatforms(_, _, _)
SeedPlatforms(maskMap, platforms, p) ==
    IF p > Len(platforms) THEN maskMap
    ELSE CHOOSE seeded \in {SeedPlatforms(m, platforms, p + 1) :
                              m \in {SeedIps(maskMap, platforms[p], 1)}} : TRUE

RECURSIVE RefineIps(_, _, _)
RefineIps(maskMap, ips, i) ==
    IF i > Len(ips) THEN maskMap
    ELSE CHOOSE refined \in {RefineIps(m, ips, i + 1) :
                               m \in {RefineNetwork(maskMap, ips[i].Ip)}} : TRUE

RECURSIVE RefinePlatforms(_, _, _)
RefinePlatforms(maskMap, platforms, p) ==
    IF p > Len(platforms) THEN maskMap
    ELSE CHOOSE refined \in {RefinePlatforms(m, platforms, p + 1) :
                               m \in {RefineIps(maskMap, platforms[p], 1)}} : TRUE

\* the table GenerateIpNetmaskMap(platforms) leaves, table being the one before
LearnPlatforms(table, platforms) ==
    CHOOSE refined \in {RefinePlatforms(seeded, platforms, 1) :
                            seeded \in {SeedPlatforms(makeIpNetmaskMap(table), platforms, 1)}} : TRUE

\* the first loop over data.Ips, one text
SeedRaw(maskMap, raw) ==
    IF raw.parts # 2 THEN maskMap
    ELSE IF raw.size.err THEN maskMap
    ELSE SeedNetwork(maskMap, IpToUint32(raw.addr), NetmaskBits(raw.size.n))

\* the second loop over data.Ips, one text
RefineRaw(maskMap, raw) ==
    IF raw.parts # 2 THEN maskMap
    ELSE RefineNetwork(maskMap, IpToUint32(raw.addr))

RECURSIVE SeedRaws(_, _, _)
SeedRaws(maskMap, raws, i) ==
    IF i > Len(raws) THEN maskMap
    ELSE CHOOSE seeded \in {SeedRaws(m, raws, i + 1) : m \in {SeedRaw(maskMap, raws[i])}} : TRUE

RECURSIVE RefineRaws(_, _, _)
RefineRaws(maskMap, raws, i) ==
    IF i > Len(raws) THEN maskMap
    ELSE CHOOSE refined \in {RefineRaws(m, raws, i + 1) : m \in {RefineRaw(maskMap, raws[i])}} : TRUE

\* the loop over datas: both loops over data.Ips run for one data before
\* the next data is looked at
RECURSIVE LearnDatas(_, _, _)
LearnDatas(maskMap, datas, d) ==
    IF d > Len(datas) THEN maskMap
    ELSE CHOOSE learnt \in {LearnDatas(RefineRaws(seeded, datas[d], 1), datas, d + 1) :
                              seeded \in {SeedRaws(maskMap, datas[d], 1)}} : TRUE

\* the table GenerateIpNetmaskMapFromIpResource(datas) leaves
LearnIpResource(table, datas) == LearnDatas(makeIpNetmaskMap(table), datas, 1)

GenerateIpNetmaskMap(platforms) ==
    /\ IpNetmaskMap' = LearnPlatforms(IpNetmaskMap, platforms)
    /\ UNCHANGED <<RawAcls, compiled, FastPolicyMaps, counters>>
    /\ Record(ControlCall("GenerateIpNetmaskMap", platforms))

GenerateIpNetmaskMapFromIpResource(datas) ==
    /\ IpNetmaskMap' = LearnIpResource(IpNetmaskMap, datas)
    /\ UNCHANGED <<RawAcls, compiled, FastPolicyMaps, counters>>
    /\ Record(ControlCall("GenerateIpNetmaskMapFromIpResource", datas))

----------------------------------------------------------------------------
(* Inputs.  Packets are exchanged by three hosts; the endpoint resolver    *)
(* hands the classifier the EndpointInfo of the packet's two hosts.        *)
(* Hosts 1 and 2 sit in the same /16 and the same EPC and belong to        *)
(* different groups; host 3 sits in another /16 and has no EPC             *)
(* (L3EpcId = -1).                                                         *)

HostIds == {1, 2, 3}

HostInfo(h) ==
    CASE h = 1 -> [GroupIds |-> {10}, L2EpcId |-> 1, L3EpcId |-> 0]
      [] h = 2 -> [GroupIds |-> {20}, L2EpcId |-> 1, L3EpcId |-> 0]
      [] OTHER -> [GroupIds |-> {10, 30}, L2EpcId |-> 0, L3EpcId |-> -1]

\* 10.0.0.1, 10.0.1.2, 10.1.0.3
HostIp(h) ==
    CASE h = 1 -> <<2560, 1>>
      [] h = 2 -> <<2560, 258>>
      [] OTHER -> <<2561, 3>>

EndpointOf(src, dst) == [SrcInfo |-> HostInfo(src), DstInfo |-> HostInfo(dst)]

LookupKey(src, dst, srcPort, dstPort, proto, vlan, tap, ts, queue) ==
    [Tap |-> tap, Timestamp |-> ts, FastIndex |-> queue, SrcMac |-> src, DstMac |-> dst,
     SrcIp |-> HostIp(src), DstIp |-> HostIp(dst), SrcPort |-> srcPort,
     DstPort |-> dstPort, Vlan |-> vlan, Proto |-> proto]

\* the endpoint the resolver gives for a packet
Resolve(K) == EndpointOf(K.SrcMac, K.DstMac)

Acl(id, type, src, dst, ports, proto, vlan) ==
    [Id |-> id, Type |-> type, SrcGroups |-> src, DstGroups |-> dst,
     DstPorts |-> ports, Proto |-> proto, Vlan |-> vlan, Action |-> {id}]

\* the rules of the design's scenarios: a port rule, a rule wildcarded in
\* every field, a vlan rule
Acls ==
    {Acl(1, 1, {10}, {20}, PortMap({80}), 6, 0),
     Acl(2, TAP_ANY, {}, {}, PortMap({}), 0, 0),
     Acl(3, TAP_ANY, {10}, {20}, PortMap({}), 0, 100)}

RECURSIVE SeqsUpTo(_, _)
SeqsUpTo(S, n) ==
    IF n = 0 THEN {<<>>}
    ELSE SeqsUpTo(S, n - 1) \cup {Append(s, x) : s \in SeqsUpTo(S, n - 1), x \in S}

----------------------------------------------------------------------------
(* The control scenario: the control thread changes the rule base while    *)
(* two workers, each on its own queue and tap, look packets up.            *)

MaxAcls == 2
MaxFirstPath == 2
MaxFastPath == 1

CtlAcls ==
    {Acl(1, TAP_MIN, {10}, {30}, PortMap({80}), 6, 0),
     Acl(2, TAP_ANY, {}, {}, PortMap({}), 0, 0)}

\* the lists UpdateAcls is called with: each rule at most once, in the order
\* of the ids (AddAcl and DelAcl make the other lists)
CtlRuleBases ==
    {acls \in SeqsUpTo(CtlAcls, Cardinality(CtlAcls)) :
        \A i, j \in 1..Len(acls) : i < j => acls[i].Id < acls[j].Id}

\* queue and tap of each worker
Lanes == {<<0, TAP_MIN>>, <<QueueCount - 1, TAP_MAX - 1>>}

Keys ==
    {LookupKey(1, 3, 1024, 80, 6, 0, lane[2], 0, lane[1]) : lane \in Lanes}

Next ==
    \/ \E acls \in CtlRuleBases : UpdateAcls(acls)
    \/ FlushAcls
    \/ \E acl \in CtlAcls : Len(RawAcls) < MaxAcls /\ AddAcl(acl)
    \/ \E id \in 0..(MaxAcls + 1) : DelAcl(id)
    \/ \E K \in Keys : FirstPathHit < MaxFirstPath /\ GetPolicyByFirstPath(Resolve(K), K)
    \/ \E K \in Keys : FastPathHit < MaxFastPath /\ GetPolicyByFastPath(K)

Spec == Init /\ [][Next]_vars

----------------------------------------------------------------------------
(* Properties of the control operations *)

\* every (queue, tap) fast-path cache of fp is an empty LRU of capacity MapSize
CachesEmpty(fp) ==
    \A i \in Queues, j \in Taps : fp[i][j].ll = <<>> /\ fp[i][j].MaxEntries = MapSize

\* C7, as claimed: after UpdateAcls returns, every fast-path LRU is cleared.
C7_UpdateAclsClearsFastPath ==
    last.op = "UpdateAcls" => CachesEmpty(FastPolicyMaps)

\* C7, amended: after AddAcl, or DelAcl with an id in range, returns (each
\* runs UpdateAcls and then FlushAcls), every fast-path LRU of every queue
\* and tap is cleared, so no entry seeded under the previous rule base
\* survives; UpdateAcls itself leaves the fast-path caches as they were.
C7_AddDelClearFastPath ==
    [][/\ (last'.op = "AddAcl" \/ (last'.op = "DelAcl" /\ last'.arg \in 1..Len(RawAcls)))
          => CachesEmpty(FastPolicyMaps')
       /\ last'.op = "UpdateAcls" => FastPolicyMaps' = FastPolicyMaps]_vars

\* C7 witness: AddAcl has returned after a worker had seeded the fast path
C7_Witness ==
    last.op = "AddAcl" /\ FirstPathHit = MaxFirstPath /\ Len(RawAcls) = MaxAcls

\* C8: FlushAcls leaves the counters, raw_acls, the compiled maps, the
\* interest sets and ip_netmask unchanged and replaces every (queue, tap)
\* fast-path LRU by an empty one of capacity map_size; a GetPolicyByFastPath
\* call made immediately after FlushAcls returns (nil, INVALID_POLICY_DATA).
C8_FlushAclsFrame ==
    [][/\ last'.op = "FlushAcls"
          => /\ UNCHANGED <<FirstPathHit, FastPathHit, FirstPathHitTick,
                            FastPathHitTick, AclHitMax>>
             /\ UNCHANGED <<RawAcls, GroupPortPolicyMaps, GroupVlanPolicyMaps,
                            InterestProtoMaps, InterestPortMaps, InterestGroupMaps,
                            IpNetmaskMap>>
             /\ CachesEmpty(FastPolicyMaps')
       /\ (last.op = "FlushAcls" /\ last'.op = "FastPath") => ~last'.ok]_vars

\* C8 witness: FlushAcls has returned in a state whose counters have all moved
C8_Witness ==
    /\ last.op = "FlushAcls"
    /\ FirstPathHit = MaxFirstPath /\ FastPathHit > 0 /\ AclHitMax > 0
    /\ RawAcls # <<>>

Substituted(acls, t) ==
    [i \in 1..Len(acls) |->
        IF acls[i].Type = TAP_ANY THEN [acls[i] EXCEPT !.Type = t] ELSE acls[i]]

\* what a table family holds for tap t
TablesAt(c, t) == <<c.port[t], c.vlan[t], c.proto[t], c.ports[t], c.groups[t]>>

\* C9: after UpdateAcls, AddAcl or DelAcl, for every concrete tap t the
\* compiled maps and interest sets of t, and so the FirstPath result of
\* every query on t, are those of the rule list in which each ANY rule is
\* replaced by the same rule with tap t; raw_acls keeps the caller's list:
\* UpdateAcls stores the list it is given, AddAcl appends the one rule it
\* is given, DelAcl with an id in range removes one rule.
C9_AnyTapExpansion ==
    [][/\ last'.op \in {"UpdateAcls", "AddAcl", "DelAcl"}
          => \A t \in Taps :
                TablesAt(Tables', t) = TablesAt(Compiled(Substituted(RawAcls', t)), t)
       /\ last'.op = "FirstPath"
          => \A f \in {FirstPathFind(Compiled(Substituted(RawAcls, last'.K.Tap)),
                                     last'.E, last'.K)} :
                /\ last'.ok = f.found
                /\ last'.policy = IF f.found THEN f.findPolicy ELSE EmptyPolicy
       /\ last'.op = "UpdateAcls" => RawAcls' = last'.arg
       /\ last'.op = "AddAcl" => RawAcls' = Append(RawAcls, last'.arg)
       /\ (last'.op = "DelAcl" /\ last'.arg \in 1..Len(RawAcls))
          => Len(RawAcls') = Len(RawAcls) - 1]_vars

\* C9 witness: a query on the last tap got the action of the ANY rule that
\* raw_acls holds once, before a rule of the first tap
C9_Witness ==
    /\ last.op = "FirstPath" /\ last.K.Tap = TAP_MAX - 1
    /\ Len(RawAcls) = MaxAcls
    /\ RawAcls[1].Type = TAP_ANY /\ RawAcls[2].Type = TAP_MIN
    /\ last.policy.acts = RawAcls[1].Action

----------------------------------------------------------------------------
(* The tier scenario: one worker on queue 0 and tap TAP_MIN looks packets  *)
(* up on the slow path and then on the fast path, all at one timestamp,    *)
(* under a rule base published once.                                       *)

\* the rule bases over the scenario rules, each rule at most once
TierRuleBases ==
    {acls \in SeqsUpTo(Acls, Cardinality(Acls)) :
        \A i, j \in 1..Len(acls) : i < j => acls[i].Id < acls[j].Id}

\* packets between hosts 1 and 2 (one subnet, one EPC), with equal and with
\* different ports, and between host 1 and the host of the other subnet,
\* untagged and tagged, in both directions
TierKeys ==
    {LookupKey(1, 2, 80, 80, 6, 0, TAP_MIN, 0, 0),
     LookupKey(1, 2, 1024, 80, 6, 0, TAP_MIN, 0, 0),
     LookupKey(1, 2, 1024, 80, 6, 100, TAP_MIN, 0, 0),
     LookupKey(2, 1, 80, 1024, 6, 100, TAP_MIN, 0, 0),
     LookupKey(1, 3, 1024, 80, 6, 0, TAP_MIN, 0, 0),
     LookupKey(1, 3, 1024, 80, 6, 100, TAP_MIN, 0, 0),
     LookupKey(3, 1, 80, 1024, 6, 0, TAP_MIN, 0, 0),
     LookupKey(3, 1, 80, 80, 6, 100, TAP_MIN, 0, 0)}

NextTier ==
    \/ \E acls \in TierRuleBases : last.op = "NewPolicyLabel" /\ UpdateAcls(acls)
    \/ \E K \in TierKeys :
          FirstPathHit < MaxFirstPath /\ GetPolicyByFirstPath(Resolve(K), K)
    \/ \E K \in TierKeys : FastPathHit < MaxFastPath /\ GetPolicyByFastPath(K)

SpecTier == Init /\ [][NextTier]_vars

\* C1: if GetPolicyByFirstPath(E, K) returns a policy P other than
\* INVALID_POLICY_DATA, the immediately following GetPolicyByFastPath(K) of
\* the same worker is a hit and returns E with a policy whose actions and
\* direction tags are those of P.
C1_TierConsistency ==
    [][(last.op = "FirstPath" /\ last.ok /\ last'.op = "FastPath" /\ last'.K = last.K)
        => (last'.ok /\ last'.ep = last.E /\ last'.policy = last.policy)]_vars

----------------------------------------------------------------------------
(* The freshness scenario: one worker seeds the fast path at some times    *)
(* and queries it at later times.                                          *)

MaxFreshHits == 2

\* no rule, or a port rule and a vlan rule the packets match
FreshRuleBases ==
    {<<>>, <<Acl(1, TAP_MIN, {10}, {30}, PortMap({80}), 6, 0),
             Acl(3, TAP_ANY, {10}, {30}, PortMap({}), 0, 100)>>}

SeedStamps == {0, 90}
QueryStamps == {30, 90, 120}

\* the packets of host 1 to host 3 (another subnet), untagged and tagged,
\* and the tagged packet of host 1 to host 2 (same subnet), at the
\* timestamps of ts
FreshKeys(ts) ==
    {LookupKey(1, 3, 1024, 80, 6, vlan, TAP_MIN, t, 0) : vlan \in {0, 100}, t \in ts}
    \cup {LookupKey(1, 2, 1024, 80, 6, 100, TAP_MIN, t, 0) : t \in ts}

NextFresh ==
    \/ \E acls \in FreshRuleBases : last.op = "NewPolicyLabel" /\ UpdateAcls(acls)
    \/ \E K \in FreshKeys(SeedStamps) :
          FirstPathHit < MaxFirstPath /\ GetPolicyByFirstPath(Resolve(K), K)
    \/ \E K \in FreshKeys(QueryStamps) :
          FastPathHit < MaxFreshHits /\ GetPolicyByFastPath(K)

SpecFresh == Init /\ [][NextFresh]_vars

\* the sub-lookups a FastPath query of packet makes: the port lookup of
\* both rounds and, for a tagged packet, the vlan lookup of the forward round
SubLookups(packet) ==
    {<<"port", FORWARD>>, <<"port", BACKWARD>>}
    \cup (IF packet.Vlan > 0 THEN {<<"vlan", FORWARD>>} ELSE {})

NoEntry == [present |-> FALSE, timestamp |-> 0]

\* the entry under key in a sub-LRU, once both MACs are known (m.ok)
EntryUnder(cache, m, key) ==
    IF m.ok /\ LruHas(cache, key)
    THEN [present |-> TRUE, timestamp |-> LruValue(cache, key).timestamp]
    ELSE NoEntry

EntryIn(maps, m, packet, sub) ==
    IF sub[1] = "vlan"
    THEN EntryUnder(maps.vlanPolicyMap, m, getFastVlanPolicyKey(m, packet, sub[2]))
    ELSE EntryUnder(maps.portPolicyMap, m, getFastPortPolicyKey(m, packet, sub[2]))

EntryAt(fm, skey, packet, sub) ==
    IF LruHas(fm, skey)
    THEN EntryIn(LruValue(fm, skey), MacLookup(LruValue(fm, skey), packet), packet, sub)
    ELSE NoEntry

\* the fast-path entry the sub-lookup sub of a query of (normalised) packet
\* reads in the cache fm
Entry(fm, packet, sub) == EntryAt(fm, SubnetKey(packet, sub[2]), packet, sub)

\* the entry is older than the query by more than POLICY_TIMEOUT
Expired(e, packet) == e.present /\ packet.Timestamp - e.timestamp > POLICY_TIMEOUT

\* the entry is not younger than the query and at most POLICY_TIMEOUT older
Fresh(e, packet) ==
    /\ e.present
    /\ 0 <= packet.Timestamp - e.timestamp
    /\ packet.Timestamp - e.timestamp <= POLICY_TIMEOUT

\* the entries a query of packet reads in fm, each with its sub-lookup
Entries(fm, packet) == {<<sub, Entry(fm, packet, sub)>> : sub \in SubLookups(packet)}

\* what holds of every entry a query reads: an expired entry is removed and
\* the query misses; a fresh entry is stamped with the query's time
EntryRule(before, after, packet, call) ==
    \A b \in before, a \in after :
        a[1] = b[1] =>
            /\ Expired(b[2], packet)
                => /\ ~call.ok /\ call.policy = EmptyPolicy /\ call.ep = NoEndpoint
                   /\ ~a[2].present
            /\ Fresh(b[2], packet)
                => (a[2].present /\ a[2].timestamp = packet.Timestamp)

\* C6, as claimed: when a query finds an entry in each of its sub-lookups,
\* an entry among them that is 0 to 60 s older than the query makes
\* FastPath hit (and is stamped with the query's time); one more than 60 s
\* older makes the sub-lookup miss, is removed, and FastPath returns
\* (nil, INVALID_POLICY_DATA).
C6_FreshEntryHits ==
    [][last'.op = "FastPath" =>
        \A packet \in {getFastInterestKeys(Tables, last'.K)} :
        \A before \in {Entries(FastPolicyMaps[packet.FastIndex][packet.Tap], packet)},
           after \in {Entries(FastPolicyMaps'[packet.FastIndex][packet.Tap], packet)} :
            /\ EntryRule(before, after, packet, last')
            /\ ((\A b \in before : b[2].present) /\ (\E b \in before : Fresh(b[2], packet)))
               => last'.ok]_vars

\* C6, amended: each sub-lookup of a FastPath query (forward port, backward
\* port, and vlan for a tagged packet) that reads an entry more than 60 s
\* older than the query misses, the entry is removed and FastPath returns
\* (nil, INVALID_POLICY_DATA); an entry 0 to 60 s older is stamped with the
\* query's time.  FastPath hits when every entry it reads is 0 to 60 s
\* older than the query, and hits only if it reads an entry in every
\* sub-lookup and none is expired.
C6_Freshness ==
    [][last'.op = "FastPath" =>
        \A packet \in {getFastInterestKeys(Tables, last'.K)} :
        \A before \in {Entries(FastPolicyMaps[packet.FastIndex][packet.Tap], packet)},
           after \in {Entries(FastPolicyMaps'[packet.FastIndex][packet.Tap], packet)} :
            /\ EntryRule(before, after, packet, last')
            /\ (\A b \in before : Fresh(b[2], packet)) => last'.ok
            /\ last'.ok
               => \A b \in before : b[2].present /\ ~Expired(b[2], packet)]_vars

\* C6 witness: the query at 120 s of a tagged packet missed after the query
\* at 30 s had hit: the entries seeded at 0 and refreshed at 30 s are gone
C6_Witness ==
    /\ last.op = "FastPath" /\ ~last.ok
    /\ last.K.Timestamp = 120 /\ last.K.Vlan > 0
    /\ FastPathHit > 0 /\ FirstPathHit = 1
    /\ LruHas(FastPolicyMaps[0][TAP_MIN], SubnetKey(last.K, FORWARD))
    /\ \A e \in Entries(FastPolicyMaps[0][TAP_MIN], getFastInterestKeys(Tables, last.K)) :
          ~e[2].present

----------------------------------------------------------------------------
(* The matching scenario: a rule base is published with UpdateAcls and one *)
(* packet is looked up on the slow path.                                   *)

\* the scenario rules; a rule on source group and ports only; a rule of
\* tap 2 with a full port map; a rule listing port 0; a rule whose source
\* group does not fit 20 bits
MatchAcls ==
    Acls \cup
    {Acl(4, TAP_MIN, {30}, {}, PortMap({80, 443}), 0, 0),
     Acl(5, TAP_MIN + 1, {20}, {10}, FullPortMap, 17, 0),
     Acl(6, TAP_MIN, {10}, {20}, PortMap({0}), 6, 0),
     Acl(7, TAP_MIN, {Pow20 + 10}, {}, PortMap({}), 0, 0)}

MatchPairs == {<<1, 2>>, <<2, 1>>, <<3, 2>>, <<1, 3>>}
MatchPorts == {<<1024, 80>>, <<80, 1024>>, <<443, 53>>}

MatchKeys ==
    {LookupKey(p[1], p[2], q[1], q[2], proto, vlan, tap, 0, 0) :
        p \in MatchPairs, q \in MatchPorts, proto \in {6, 17},
        vlan \in {0, 100, 200}, tap \in Taps}

NextMatch ==
    \/ \E acls \in SeqsUpTo(MatchAcls, MaxAcls) :
          last.op = "NewPolicyLabel" /\ UpdateAcls(acls)
    \/ \E K \in MatchKeys :
          last.op = "UpdateAcls" /\ GetPolicyByFirstPath(Resolve(K), K)

SpecMatch == Init /\ [][NextMatch]_vars

\* the group set of a rule side is empty or shares an id with the endpoint's
Meets(ruleGroups, groupIds) == ruleGroups = {} \/ ruleGroups \cap groupIds # {}

\* the port map of a rule is empty or full, or lists the port
ListsPort(acl, port) ==
    acl.DstPorts.len = 0 \/ acl.DstPorts.len >= 65535 \/ port \in acl.DstPorts.vals

ForwardMatch(acl, E, K) ==
    /\ Meets(acl.SrcGroups, E.SrcInfo.GroupIds)
    /\ Meets(acl.DstGroups, E.DstInfo.GroupIds)
    /\ ListsPort(acl, K.DstPort)
    /\ (acl.Proto = 0 \/ acl.Proto = K.Proto)

\* the rule matches the reversed tuple
BackwardMatch(acl, E, K) ==
    /\ Meets(acl.SrcGroups, E.DstInfo.GroupIds)
    /\ Meets(acl.DstGroups, E.SrcInfo.GroupIds)
    /\ ListsPort(acl, K.SrcPort)
    /\ (acl.Proto = 0 \/ acl.Proto = K.Proto)

\* all group ids in [1, 2^20), all listed ports non-zero
InRange(acls, E) ==
    /\ \A i \in 1..Len(acls) :
          /\ \A g \in acls[i].SrcGroups \cup acls[i].DstGroups : 1 <= g /\ g < Pow20
          /\ \A port \in acls[i].DstPorts.vals : port # 0
    /\ \A g \in E.SrcInfo.GroupIds \cup E.DstInfo.GroupIds : 1 <= g /\ g < Pow20

\* the port rules of the rule base a query on tap can hit: positions in acls
PortRules(acls, tap) ==
    {i \in 1..Len(acls) : acls[i].Vlan = 0 /\ acls[i].Type \in {tap, TAP_ANY}}

\* C2: after UpdateAcls(rules), with all group ids in [1, 2^20) and all
\* listed ports non-zero, GetPolicyByFirstPath(E, K) returns the actions of
\* a rule (vlan 0, tap K.tap or ANY) tagged FORWARD if and only if its source
\* groups are empty or meet E's source groups, its destination groups are
\* empty or meet E's destination groups, its ports are empty, full or hold
\* K's original dst_port, and its proto is 0 or K's original proto.
C2_ForwardPortMatching ==
    [][(last'.op = "FirstPath" /\ InRange(RawAcls, last'.E)) =>
        \A i \in PortRules(RawAcls, last'.K.Tap) :
            <<RawAcls[i].Id, FORWARD>> \in last'.policy.tags
            <=> ForwardMatch(RawAcls[i], last'.E, last'.K)]_vars

\* C2 witness: a query with an interesting and an uninteresting port hit a
\* rule on ports under any protocol, and missed the other rule of the base
C2_Witness ==
    /\ last.op = "FirstPath" /\ InRange(RawAcls, last.E)
    /\ last.K.DstPort = 80 /\ last.K.SrcPort = 1024 /\ last.K.Proto = 17
    /\ Len(RawAcls) = MaxAcls
    /\ \E i, j \in PortRules(RawAcls, last.K.Tap) :
          /\ RawAcls[i].Proto = 0 /\ RawAcls[i].DstPorts.len = 2
          /\ <<RawAcls[i].Id, FORWARD>> \in last.policy.tags
          /\ RawAcls[j].Id \notin last.policy.acts

\* C3, as claimed: after UpdateAcls(rules), GetPolicyByFirstPath(E, K) returns
\* the actions of a rule (vlan 0, tap K.tap) tagged BACKWARD if and only if
\* the rule matches the reversed tuple.
C3_BackwardIffReversed ==
    [][last'.op = "FirstPath" =>
        \A i \in {j \in PortRules(RawAcls, last'.K.Tap) : RawAcls[j].Type = last'.K.Tap} :
            <<RawAcls[i].Id, BACKWARD>> \in last'.policy.tags
            <=> BackwardMatch(RawAcls[i], last'.E, last'.K)]_vars

\* C3, amended: with all group ids in [1, 2^20) and all listed ports
\* non-zero, GetPolicyByFirstPath(E, K) returns the actions of a rule
\* (vlan 0, tap K.tap or ANY) tagged BACKWARD if and only if the rule matches
\* the reversed tuple; a rule matching the tuple itself is in the same
\* policy tagged FORWARD.
C3_BackwardPortMatching ==
    [][(last'.op = "FirstPath" /\ InRange(RawAcls, last'.E)) =>
        \A i \in PortRules(RawAcls, last'.K.Tap) :
            /\ <<RawAcls[i].Id, BACKWARD>> \in last'.policy.tags
               <=> BackwardMatch(RawAcls[i], last'.E, last'.K)
            /\ ForwardMatch(RawAcls[i], last'.E, last'.K)
               => <<RawAcls[i].Id, FORWARD>> \in last'.policy.tags]_vars

\* C3 witness: one call returned a rule tagged BACKWARD only and another
\* rule tagged both ways
C3_Witness ==
    /\ last.op = "FirstPath" /\ InRange(RawAcls, last.E)
    /\ \E i, j \in PortRules(RawAcls, last.K.Tap) :
          /\ RawAcls[i].DstPorts.len = 1
          /\ <<RawAcls[i].Id, BACKWARD>> \in last.policy.tags
          /\ <<RawAcls[i].Id, FORWARD>> \notin last.policy.tags
          /\ <<RawAcls[j].Id, BACKWARD>> \in last.policy.tags
          /\ <<RawAcls[j].Id, FORWARD>> \in last.policy.tags

\* the vlan rules of the rule base a query on tap can hit
VlanRules(acls, tap) ==
    {i \in 1..Len(acls) : acls[i].Vlan > 0 /\ acls[i].Type \in {tap, TAP_ANY}}

----------------------------------------------------------------------------
(* The compiler scenario: the control thread publishes rule lists made of  *)
(* port rules and vlan rules whose group sets are different, equal or      *)
(* wildcards on both sides.                                                *)

CompileAcls ==
    {Acl(1, TAP_MIN, {10}, {20}, PortMap({80}), 6, 0),
     Acl(2, TAP_ANY, {}, {}, PortMap({}), 0, 0),
     Acl(3, TAP_ANY, {10}, {20}, PortMap({}), 0, 100),
     Acl(4, TAP_MIN, {10}, {10}, PortMap({}), 0, 100),
     Acl(5, TAP_MAX - 1, {}, {}, PortMap({}), 0, 200),
     Acl(6, TAP_MIN, {10, 20}, {10, 20}, PortMap({}), 6, 100),
     Acl(7, TAP_MIN, {0}, {0}, PortMap({80, 443}), 17, 0),
     Acl(8, TAP_MAX, {10}, {20}, PortMap({}), 0, 0)}

NextCompile ==
    \/ \E acls \in SeqsUpTo(CompileAcls, MaxAcls) : UpdateAcls(acls)
    \/ \E acl \in CompileAcls : Len(RawAcls) < MaxAcls /\ AddAcl(acl)

SpecCompile == Init /\ [][NextCompile]_vars

\* the taps a rule is compiled for
RuleTaps(acl) ==
    IF acl.Type = TAP_ANY THEN Taps
    ELSE IF CheckTapType(acl.Type) THEN {acl.Type} ELSE {}

\* the entries of map m the rule's actions were merged into
Contributed(m, acl) == {k \in DOMAIN m : acl.Action \subseteq m[k].acts}

\* the entries of map m holding the rule's actions under direction dir
Tagged(m, acl, dir) ==
    {k \in DOMAIN m : \A a \in acl.Action : <<a, dir>> \in m[k].tags}

\* the group ids one side of a rule puts in its keys
KeyGroups(groups) ==
    IF mapToSlice(groups) = {} THEN {ANY_GROUP}
    ELSE {g % Pow20 : g \in mapToSlice(groups)}

\* both sides of the rule come down to one and the same group id
SameSingleGroup(acl) ==
    /\ KeyGroups(acl.SrcGroups) = KeyGroups(acl.DstGroups)
    /\ Cardinality(KeyGroups(acl.SrcGroups)) = 1

\* C11, as claimed: after UpdateAcls(rules), every rule with a valid tap
\* and vlan = 0 has at least one entry in group_port_policy[rule.tap] and
\* none in group_vlan_policy; every rule with vlan > 0 has two entries in
\* group_vlan_policy[rule.tap], one forward-tagged and one backward-tagged,
\* and none in group_port_policy, whatever its group sets are.
C11_TwoVlanEntries ==
    \A i \in 1..Len(RawAcls) : \A t \in RuleTaps(RawAcls[i]) :
        /\ RawAcls[i].Vlan = 0
           => /\ Contributed(GroupPortPolicyMaps[t], RawAcls[i]) # {}
              /\ \A u \in Taps : Contributed(GroupVlanPolicyMaps[u], RawAcls[i]) = {}
        /\ RawAcls[i].Vlan > 0
           => /\ \E k1 \in Tagged(GroupVlanPolicyMaps[t], RawAcls[i], FORWARD) :
                 \E k2 \in Tagged(GroupVlanPolicyMaps[t], RawAcls[i], BACKWARD) : k1 # k2
              /\ \A u \in Taps : Contributed(GroupPortPolicyMaps[u], RawAcls[i]) = {}

\* C11, amended: after UpdateAcls(rules), every rule with a valid tap and
\* vlan = 0 has at least one entry in group_port_policy[rule.tap] and none
\* in group_vlan_policy; every rule with vlan > 0 has a forward-tagged and
\* a backward-tagged entry in group_vlan_policy[rule.tap] and none in
\* group_port_policy.  The two are different entries unless both group
\* sets of the rule come down to the same single group id (the same id on
\* both sides, or wildcards on both sides): then the rule has exactly one
\* entry, which carries both tags.
C11_RuleRoundTrip ==
    \A i \in 1..Len(RawAcls) : \A t \in RuleTaps(RawAcls[i]) :
        /\ RawAcls[i].Vlan = 0
           => /\ Contributed(GroupPortPolicyMaps[t], RawAcls[i]) # {}
              /\ \A u \in Taps : Contributed(GroupVlanPolicyMaps[u], RawAcls[i]) = {}
        /\ RawAcls[i].Vlan > 0
           => /\ Tagged(GroupVlanPolicyMaps[t], RawAcls[i], FORWARD) # {}
              /\ Tagged(GroupVlanPolicyMaps[t], RawAcls[i], BACKWARD) # {}
              /\ IF SameSingleGroup(RawAcls[i])
                 THEN /\ Cardinality(Contributed(GroupVlanPolicyMaps[t], RawAcls[i])) = 1
                      /\ Tagged(GroupVlanPolicyMaps[t], RawAcls[i], FORWARD)
                         = Tagged(GroupVlanPolicyMaps[t], RawAcls[i], BACKWARD)
                 ELSE \E k1 \in Tagged(GroupVlanPolicyMaps[t], RawAcls[i], FORWARD) :
                      \E k2 \in Tagged(GroupVlanPolicyMaps[t], RawAcls[i], BACKWARD) :
                          k1 # k2
              /\ \A u \in Taps : Contributed(GroupPortPolicyMaps[u], RawAcls[i]) = {}

\* C11 witness: UpdateAcls has published a port rule next to a vlan rule
\* whose two group sets are the same single group
C11_Witness ==
    /\ last.op = "UpdateAcls" /\ Len(RawAcls) = MaxAcls
    /\ RawAcls[1].Vlan = 0 /\ RawAcls[1].Type = TAP_MIN
    /\ RawAcls[MaxAcls].Vlan > 0 /\ SameSingleGroup(RawAcls[MaxAcls])
    /\ Cardinality(DOMAIN GroupVlanPolicyMaps[TAP_MIN]) = 1

----------------------------------------------------------------------------
(* The learner scenario: the control thread feeds the netmask learner      *)
(* platforms and IP groups, call after call.  The prefixes lie in          *)
(* 10.0.0.0/16 and 10.1.0.0/16 and have lengths 0, 8, 16, 17, 24, 28 and   *)
(* 33; the texts include ones without '/', with two '/', with a length     *)
(* that is no integer and with a negative length.                          *)

\* the number of platforms, or of IP groups, of one call
MaxLearn == 2

Net(ip, n) == [Ip |-> ip, Netmask |-> n]

\* the text addr/n
Raw(addr, n) == [parts |-> 2, addr |-> addr, size |-> [n |-> n, err |-> FALSE]]
\* a text of addr and something after the '/' that is no integer
RawNoInt(addr) == [parts |-> 2, addr |-> addr, size |-> [n |-> 0, err |-> TRUE]]
\* a text that splits in another number of parts; its size is never read
RawParts(addr, parts) == [parts |-> parts, addr |-> addr, size |-> [n |-> 24, err |-> FALSE]]

LearnPlatformSet ==
    {<<Net(<<2560, 0>>, 24), Net(<<2560, 256>>, 24)>>,
     <<Net(<<2560, 293>>, 8)>>,
     <<Net(<<2560, 513>>, 28)>>,
     <<Net(<<2561, 3>>, 33), Net(<<2561, 3>>, 0), Net(<<2561, 3>>, 16)>>}

LearnDataSet ==
    {<<Raw(<<10, 0, 0, 0>>, 24), RawNoInt(<<10, 0, 1, 37>>)>>,
     <<Raw(<<10, 0, 2, 1>>, 28)>>,
     <<RawParts(<<10, 0, 2, 1>>, 1), RawParts(<<10, 0, 1, 0>>, 3), Raw(<<10, 0, 1, 37>>, 8)>>,
     <<Raw(<<10, 1, 0, 3>>, -1), Raw(<<10, 1, 0, 3>>, 17)>>,
     <<Raw(<<10, 0, 1, 37>>, 24)>>}

NextLearn ==
    \/ \E platforms \in SeqsUpTo(LearnPlatformSet, MaxLearn) :
          GenerateIpNetmaskMap(platforms)
    \/ \E datas \in SeqsUpTo(LearnDataSet, MaxLearn) :
          GenerateIpNetmaskMapFromIpResource(datas)

SpecLearn == Init /\ [][NextLearn]_vars

Learners == {"GenerateIpNetmaskMap", "GenerateIpNetmaskMapFromIpResource"}

\* the prefixes an input holds, as [ip, n]: every network of a platform,
\* every text of one '/' with an integer length
Prefixes(op, input) ==
    IF op = "GenerateIpNetmaskMap"
    THEN {[ip |-> input[p][i].Ip, n |-> input[p][i].Netmask] :
            <<p, i>> \in {x \in (1..Len(input)) \X (1..3) : x[2] <= Len(input[x[1]])}}
    ELSE {[ip |-> IpToUint32(input[p][i].addr), n |-> input[p][i].size.n] :
            <<p, i>> \in {x \in (1..Len(input)) \X (1..3) :
                            /\ x[2] <= Len(input[x[1]])
                            /\ input[x[1]][x[2]].parts = 2
                            /\ ~input[x[1]][x[2]].size.err}}

\* the greatest of a non-empty set of uint32
MaxMask(S) == CHOOSE m \in S : \A x \in S : ~U32Less(m, x)

\* the /16 buckets the tables and the prefixes name
Buckets(before, after, prefixes) ==
    {k \in (DOMAIN before) \cup (DOMAIN after) : k[2] = 0}
    \cup {IpAnd(e.ip, Mask16) : e \in prefixes}

\* what C12 says bucket b holds after a call
BucketMax(before, prefixes, b) ==
    MaxMask({MaskAt(before, b)}
            \cup {NetmaskBits(e.n) : e \in {x \in prefixes :
                                            x.n >= 16 /\ IpAnd(x.ip, Mask16) = b}})

\* C12: after GenerateIpNetmaskMap or GenerateIpNetmaskMapFromIpResource,
\* every /16 bucket b holds the maximum of its previous value and the masks
\* of all input prefixes of length >= 16 whose IP lies in b (and is absent
\* when that is no mask at all); when the bucket of 10.0.0.0 holds
\* 0xFFFFFF00 the fast-path subnet key of a packet from 10.0.0.1 to
\* 10.0.1.2 is made of the two different networks 10.0.0.0 and 10.0.1.0.
C12_LearnerResult ==
    /\ [][last'.op \in Learners =>
        \A prefixes \in {Prefixes(last'.op, last'.arg)} :
           \A b \in Buckets(IpNetmaskMap, IpNetmaskMap', prefixes) :
              /\ MaskAt(IpNetmaskMap', b) = BucketMax(IpNetmaskMap, prefixes, b)
              /\ b \in DOMAIN IpNetmaskMap' <=> MaskAt(IpNetmaskMap', b) # <<0, 0>>
       ]_vars
    /\ [](MaskAt(IpNetmaskMap, <<2560, 0>>) = <<65535, 65280>>
           => SubnetKey(LookupKey(1, 2, 1024, 80, 6, 0, TAP_MIN, 0, 0), FORWARD)
              = <<(<<2560, 256>>), (<<2560, 0>>)>>)

\* C12 witness: a call on IP groups has left 0xFFFFFF00 at the bucket of
\* 10.0.0.0 next to the bucket of 10.1.0.0 an earlier call had filled
C12_Witness ==
    /\ last.op = "GenerateIpNetmaskMapFromIpResource"
    /\ Len(last.arg) = 1
    /\ MaskAt(IpNetmaskMap, <<2560, 0>>) = <<65535, 65280>>
    /\ MaskAt(IpNetmaskMap, <<2561, 0>>) = <<65535, 32768>>

\* C13, as claimed: a second call of GenerateIpNetmaskMap, or of
\* GenerateIpNetmaskMapFromIpResource, with the same input (any number of
\* platforms or IP groups, in the same order) leaves every key and value of
\* ip_netmask as the first call left them.
C13_LearnerIdempotent ==
    [][(last.op \in Learners /\ last'.op = last.op /\ last'.arg = last.arg)
        => IpNetmaskMap' = IpNetmaskMap]_vars

\* C14: every value stored in ip_netmask lies in [0xFFFF0000, 0xFFFFFFFF],
\* and across the calls of the learner, whatever the prefix lengths of
\* their inputs (0, below 16 and above 32 included), the value at a key
\* never decreases and no key is ever removed.
C14_NetmaskTable ==
    /\ [](\A k \in DOMAIN IpNetmaskMap :
            /\ ~U32Less(IpNetmaskMap[k], Mask16)
            /\ ~U32Less(<<Pow16 - 1, Pow16 - 1>>, IpNetmaskMap[k])
            /\ IpNetmaskMap[k][2] \in 0..(Pow16 - 1))
    /\ [][\A k \in DOMAIN IpNetmaskMap :
            /\ k \in DOMAIN IpNetmaskMap'
            /\ ~U32Less(IpNetmaskMap'[k], IpNetmaskMap[k])]_vars

\* C14 witness: after a call whose prefixes have the lengths 33, 0 and 16
\* the table holds the keys and values earlier calls left, among them a
\* value above 0xFFFFFF00 and a key that is no /16 bucket
C14_Witness ==
    /\ last.op = "GenerateIpNetmaskMap"
    /\ \E p \in 1..Len(last.arg) :
          {last.arg[p][i].Netmask : i \in 1..Len(last.arg[p])} = {33, 0, 16}
    /\ MaskAt(IpNetmaskMap, <<2560, 0>>) = <<65535, 65520>>
    /\ MaskAt(IpNetmaskMap, <<2561, 0>>) = <<65535, 32768>>
    /\ \E k \in DOMAIN IpNetmaskMap : k[2] # 0

\* the entries of an input the learner is to ignore: a prefix shorter than
\* /16, or a text that has no single '/' or no integer after it
Ignored(op, input) ==
    IF op = "GenerateIpNetmaskMap"
    THEN {x \in (1..Len(input)) \X (1..3) :
            x[2] <= Len(input[x[1]]) /\ input[x[1]][x[2]].Netmask < 16}
    ELSE {x \in (1..Len(input)) \X (1..3) :
            /\ x[2] <= Len(input[x[1]])
            /\ \/ input[x[1]][x[2]].parts # 2
               \/ input[x[1]][x[2]].size.err
               \/ input[x[1]][x[2]].size.n < 16}

\* the input without its entry x
WithoutEntry(input, x) == [input EXCEPT ![x[1]] = SeqWithout(@, x[2])]

\* the table a learner leaves
Learn(op, table, input) ==
    IF op = "GenerateIpNetmaskMap" THEN LearnPlatforms(table, input)
    ELSE LearnIpResource(table, input)

\* C15, as claimed: an input entry whose prefix is shorter than /16 (either
\* learner), or whose text is malformed (GenerateIpNetmaskMapFromIpResource),
\* is skipped in both passes: the table the call leaves is the table the
\* same input without that entry gives.
C15_IgnoredEntries ==
    [][last'.op \in Learners =>
        \A x \in Ignored(last'.op, last'.arg) :
            IpNetmaskMap' = Learn(last'.op, IpNetmaskMap, WithoutEntry(last'.arg, x))]_vars

----------------------------------------------------------------------------
(* The id map.  Keys of the tests: (0,1) and (1,0) have the same hash,     *)
(* (0,5) has another hash in the same slot, (0,2) lies in another slot.    *)

label == <<RawAcls, compiled, IpNetmaskMap, FastPolicyMaps, counters>>

IDMapCall(op, ok, arg) == Call(op, NoKey, NoEndpoint, ok, NoEndpoint, EmptyPolicy, arg)

AddOrGet(key, hash, value, overwrite) ==
    \E r \in {IDMapAddOrGet(idmap, key, hash, value, overwrite)} :
        /\ idmap' = r.m
        /\ last' = IDMapCall("AddOrGet", r.added,
                             [key |-> key, hash |-> hash, value |-> value,
                              overwrite |-> overwrite, ret |-> r.value])
        /\ UNCHANGED <<label, threads>>

Get(key, hash) ==
    \E r \in {IDMapGet(idmap, key, hash)} :
        /\ last' = IDMapCall("Get", r.in, [key |-> key, hash |-> hash, ret |-> r.value])
        /\ UNCHANGED <<idmap, label, threads>>

Clear ==
    /\ idmap' = IDMapClear(idmap)
    /\ last' = IDMapCall("Clear", FALSE, 0)
    /\ UNCHANGED <<label, threads>>

Size ==
    /\ last' = IDMapCall("Size", FALSE, IDMapSize(idmap))
    /\ UNCHANGED <<idmap, label, threads>>

IDMapNodes ==
    {newNode(<<0, 0>>, <<0, 1>>), newNode(<<0, 1>>, <<0, 0>>),
     newNode(<<0, 0>>, <<0, 2>>), newNode(<<0, 0>>, <<0, 5>>)}

IDMapValues == {1, 2}

NextIDMap ==
    \/ \E node \in IDMapNodes, value \in IDMapValues, overwrite \in BOOLEAN :
          AddOrGet(node.key, node.hash, value, overwrite)
    \/ \E node \in IDMapNodes : Get(node.key, node.hash)
    \/ Clear
    \/ Size

SpecIDMap == Init /\ [][NextIDMap]_vars

\* the nodes of a map, and the dictionary they stand for
IDMapChainNodes(m) ==
    {x \in (DOMAIN m.slots) \X (1..Cardinality(IDMapNodes)) : x[2] <= Len(m.slots[x[1]])}

Dict(m) == {<<m.slots[x[1]][x[2]].key, m.slots[x[1]][x[2]].value>> : x \in IDMapChainNodes(m)}

DictKeys(m) == {e[1] : e \in Dict(m)}

DictPut(d, key, value) == {e \in d : e[1] # key} \cup {<<key, value>>}

\* C16: the map is a dictionary keyed by the key bytes.  Every key is held by
\* one node and Size is the number of keys; AddOrGet returns true exactly
\* when the key was absent and then stores the value, on a present key it
\* returns false and stores the value only when overwrite is set; Get returns
\* presence and the stored value and changes nothing; Size returns the number
\* of keys; Clear leaves the empty dictionary, and all of this holds after it.
C16_Dictionary ==
    /\ [](/\ Cardinality(DictKeys(idmap)) = Cardinality(IDMapChainNodes(idmap))
          /\ idmap.size = Cardinality(DictKeys(idmap)))
    /\ [][last'.op = "AddOrGet" =>
            /\ last'.ok = (last'.arg.key \notin DictKeys(idmap))
            /\ Dict(idmap') = IF last'.ok \/ last'.arg.overwrite
                              THEN DictPut(Dict(idmap), last'.arg.key, last'.arg.value)
                              ELSE Dict(idmap)
         ]_vars
    /\ [][last'.op = "Get" =>
            /\ last'.ok = (last'.arg.key \in DictKeys(idmap))
            /\ last'.ok => <<last'.arg.key, last'.arg.ret>> \in Dict(idmap)
            /\ idmap' = idmap
         ]_vars
    /\ [][last'.op = "Size" =>
            last'.arg = Cardinality(DictKeys(idmap)) /\ idmap' = idmap]_vars
    /\ [][last'.op = "Clear" => Dict(idmap') = {} /\ idmap'.size = 0]_vars

\* a key was added next to a key of the same hash whose value had been
\* overwritten, the map holding three keys
C16_Witness ==
    /\ last.op = "AddOrGet" /\ last.ok
    /\ last.arg.key = <<(<<0, 1>>), (<<0, 0>>)>>
    /\ \E e \in Dict(idmap) : e[1] = <<(<<0, 0>>), (<<0, 1>>)>> /\ e[2] = 2
    /\ idmap.size = 3

----------------------------------------------------------------------------
(* Threads.  Nothing orders the control thread's AddAcl and DelAcl with a  *)
(* worker's lookups: no lock is taken and the tables are plain fields.     *)
(* A call is cut where it reads or writes what another thread writes or    *)
(* reads: the control thread after each field it stores, GetPolicyByFirst- *)
(* Path between reading the tables (lines 479-481) and using them.         *)

\* AddAcl up to l.RawAcls = acls
AddAclStart(acl) ==
    /\ ctl.pc = "idle"
    /\ RawAcls' = Append(RawAcls, acl)
    /\ ctl' = [pc |-> "port", old |-> RawAcls, call |-> ControlCall("AddAcl", acl)]
    /\ last' = Step
    /\ UNCHANGED <<compiled, FastPolicyMaps, counters, IpNetmaskMap, idmap, wk>>

\* DelAcl up to l.RawAcls = acls, or to its return for an id out of range
DelAclStart(id) ==
    /\ ctl.pc = "idle"
    /\ IF id > Len(RawAcls) \/ id <= 0
       THEN /\ last' = ControlCall("DelAcl", id)
            /\ UNCHANGED <<RawAcls, ctl>>
       ELSE /\ RawAcls' = DelAclList(RawAcls, id)
            /\ ctl' = [pc |-> "port", old |-> RawAcls, call |-> ControlCall("DelAcl", id)]
            /\ last' = Step
    /\ UNCHANGED <<compiled, FastPolicyMaps, counters, IpNetmaskMap, idmap, wk>>

\* l.GroupPortPolicyMaps = portMaps
StoreGroupPortPolicyMaps ==
    /\ ctl.pc = "port"
    /\ GroupPortPolicyMaps' = GenerateGroupPortMaps(generateAcls(RawAcls, 1))
    /\ ctl' = [ctl EXCEPT !.pc = "vlan"]
    /\ last' = Step
    /\ UNCHANGED <<RawAcls, InterestProtoMaps, InterestPortMaps, InterestGroupMaps,
                   GroupVlanPolicyMaps, FastPolicyMaps, counters, IpNetmaskMap, idmap, wk>>

\* l.GroupVlanPolicyMaps = vlanMaps
StoreGroupVlanPolicyMaps ==
    /\ ctl.pc = "vlan"
    /\ GroupVlanPolicyMaps' = GenerateGroupVlanMaps(generateAcls(RawAcls, 1))
    /\ ctl' = [ctl EXCEPT !.pc = "group"]
    /\ last' = Step
    /\ UNCHANGED <<RawAcls, InterestProtoMaps, InterestPortMaps, InterestGroupMaps,
                   GroupPortPolicyMaps, FastPolicyMaps, counters, IpNetmaskMap, idmap, wk>>

\* l.InterestGroupMaps = interestGroupMaps
StoreInterestGroupMaps ==
    /\ ctl.pc = "group"
    /\ InterestGroupMaps' = InterestGroupOf(generateAcls(RawAcls, 1))
    /\ ctl' = [ctl EXCEPT !.pc = "proto"]
    /\ last' = Step
    /\ UNCHANGED <<RawAcls, InterestProtoMaps, InterestPortMaps, GroupPortPolicyMaps,
                   GroupVlanPolicyMaps, FastPolicyMaps, counters, IpNetmaskMap, idmap, wk>>

\* l.InterestProtoMaps = interestProtoMaps
StoreInterestProtoMaps ==
    /\ ctl.pc = "proto"
    /\ InterestProtoMaps' = InterestProtoOf(generateAcls(RawAcls, 1))
    /\ ctl' = [ctl EXCEPT !.pc = "ports"]
    /\ last' = Step
    /\ UNCHANGED <<RawAcls, InterestPortMaps, InterestGroupMaps, GroupPortPolicyMaps,
                   GroupVlanPolicyMaps, FastPolicyMaps, counters, IpNetmaskMap, idmap, wk>>

\* l.InterestPortMaps = interestPortMaps, the last statement of UpdateAcls
StoreInterestPortMaps ==
    /\ ctl.pc = "ports"
    /\ InterestPortMaps' = InterestPortOf(generateAcls(RawAcls, 1))
    /\ ctl' = [ctl EXCEPT !.pc = "flush"]
    /\ last' = Step
    /\ UNCHANGED <<RawAcls, InterestProtoMaps, InterestGroupMaps, GroupPortPolicyMaps,
                   GroupVlanPolicyMaps, FastPolicyMaps, counters, IpNetmaskMap, idmap, wk>>

\* l.FlushAcls() and the return of AddAcl or DelAcl
FlushAclsReturn ==
    /\ ctl.pc = "flush"
    /\ FastPolicyMaps' = Flushed
    /\ ctl' = IdleControl(RawAcls)
    /\ last' = ctl.call
    /\ UNCHANGED <<RawAcls, compiled, counters, IpNetmaskMap, idmap, wk>>

\* GetPolicyByFirstPath up to vlanGroup := l.GroupVlanPolicyMaps[packet.Tap]:
\* the five tables as the worker reads them
FirstPathRead(w, E, K) ==
    /\ wk[w].pc = "idle"
    /\ wk' = [wk EXCEPT ![w] = [IdleWorker EXCEPT !.pc = "seed", !.K = K, !.E = E,
                                                  !.c = Tables]]
    /\ last' = Step
    /\ UNCHANGED <<label, idmap, ctl>>

\* the rest of GetPolicyByFirstPath: the lookups in the tables read, the
\* seeding of the fast path, the counters, the return
FirstPathReturn(w) ==
    /\ wk[w].pc = "seed"
    /\ \E f \in {FirstPathFind(wk[w].c, wk[w].E, wk[w].K)} :
        /\ FastPolicyMaps' = [FastPolicyMaps EXCEPT ![wk[w].K.FastIndex][wk[w].K.Tap] =
                                FirstPathSeed(@, wk[w].E, f)]
        /\ last' = Call("FirstPath", wk[w].K, wk[w].E, f.found, wk[w].E,
                        IF f.found THEN f.findPolicy ELSE EmptyPolicy, 0)
    /\ FirstPathHit' = FirstPathHit + 1
    /\ FirstPathHitTick' = FirstPathHitTick + 1
    /\ wk' = [wk EXCEPT ![w] = IdleWorker]
    /\ UNCHANGED <<RawAcls, compiled, IpNetmaskMap, FastPathHit, FastPathHitTick,
                   AclHitMax, idmap, ctl>>

----------------------------------------------------------------------------
(* The race scenario: the control thread adds and removes the port rule    *)
(* and the wildcard rule while worker 1 looks up a packet of host 1 to     *)
(* host 3, whose addresses, EPC ids and ports differ.                      *)

RaceAcls ==
    {Acl(1, TAP_MIN, {10}, {30}, PortMap({80}), 6, 0),
     Acl(2, TAP_ANY, {}, {}, PortMap({}), 0, 0)}

RaceKeys == {LookupKey(1, 3, 1024, 80, 6, 0, TAP_MIN, 0, 0)}

NextRace ==
    \/ \E acl \in RaceAcls : Len(RawAcls) < MaxAcls /\ AddAclStart(acl)
    \/ \E id \in 0..MaxAcls : DelAclStart(id)
    \/ StoreGroupPortPolicyMaps
    \/ StoreGroupVlanPolicyMaps
    \/ StoreInterestGroupMaps
    \/ StoreInterestProtoMaps
    \/ StoreInterestPortMaps
    \/ FlushAclsReturn
    \/ \E K \in RaceKeys : FirstPathHit < MaxFirstPath /\ FirstPathRead(1, Resolve(K), K)
    \/ FirstPathReturn(1)
    \/ \E K \in RaceKeys :
          wk[1].pc = "idle" /\ FastPathHit < MaxFastPath /\ GetPolicyByFastPath(K)

SpecRace == Init /\ [][NextRace]_vars

\* what GetPolicyByFirstPath returns for K under the tables c
FirstPathPolicy(c, K) ==
    IF FirstPathFind(c, Resolve(K), K).found
    THEN FirstPathFind(c, Resolve(K), K).findPolicy
    ELSE EmptyPolicy

\* C17: once AddAcl or DelAcl and the worker's GetPolicyByFirstPath have
\* returned, a GetPolicyByFastPath hit returns the policy GetPolicyByFirstPath
\* computes for the packet under the rules now in force.
C17_NoStaleFastPath ==
    [][(last'.op = "FastPath" /\ last'.ok /\ ctl.pc = "idle" /\ wk[1].pc = "idle")
        => last'.policy = FirstPathPolicy(Tables, last'.K)]_vars

\* the five tables of c are those of d; the two interest sets
\* GetPolicyByFastPath reads are those of d
SameFamily(c, d) ==
    /\ c.port = d.port /\ c.vlan = d.vlan
    /\ c.proto = d.proto /\ c.ports = d.ports /\ c.groups = d.groups

SameInterest(c, d) == c.proto = d.proto /\ c.ports = d.ports

\* C18: the tables a lookup reads are those of the rule list before the
\* update under way or those of the rule list after it: all five for
\* GetPolicyByFirstPath, the port and proto interest sets for
\* GetPolicyByFastPath.
C18_AtomicPublication ==
    [][/\ (wk[1].pc = "idle" /\ wk'[1].pc = "seed")
          => \/ SameFamily(wk'[1].c, Compiled(ctl.old))
             \/ SameFamily(wk'[1].c, Compiled(RawAcls))
       /\ last'.op = "FastPath"
          => \/ SameInterest(Tables, Compiled(ctl.old))
             \/ SameInterest(Tables, Compiled(RawAcls))]_vars

----------------------------------------------------------------------------
(* GetPolicyByFastPath statement by statement from the hit on: the two     *)
(* atomic adds, the atomic load of AclHitMax, the compare-and-swap.        *)

\* GetPolicyByFastPath up to found: the return on a miss, or the hit held
FastPathFind(w, K) ==
    /\ wk[w].pc = "idle"
    /\ ~FastPathDisable
    /\ \E r \in {FastPathLookup(Tables, FastPolicyMaps[K.FastIndex][K.Tap], K)} :
        /\ FastPolicyMaps' = [FastPolicyMaps EXCEPT ![K.FastIndex][K.Tap] = r.fm]
        /\ IF r.found
           THEN /\ wk' = [wk EXCEPT ![w] = [IdleWorker EXCEPT !.pc = "count", !.K = K,
                                               !.endpoint = r.endpoint,
                                               !.policy = r.policy]]
                /\ last' = Step
           ELSE /\ UNCHANGED wk
                /\ last' = Call("FastPath", K, NoEndpoint, FALSE, NoEndpoint, EmptyPolicy, 0)
    /\ UNCHANGED <<RawAcls, compiled, IpNetmaskMap, counters, idmap, ctl>>

\* atomic.AddUint64(&l.FastPathHit, 1); atomic.AddUint64(&l.FastPathHitTick, 1)
FastPathCount(w) ==
    /\ wk[w].pc = "count"
    /\ FastPathHit' = FastPathHit + 1
    /\ FastPathHitTick' = FastPathHitTick + 1
    /\ wk' = [wk EXCEPT ![w].pc = "load"]
    /\ last' = Step
    /\ UNCHANGED <<RawAcls, compiled, IpNetmaskMap, FastPolicyMaps, FirstPathHit,
                   FirstPathHitTick, AclHitMax, idmap, ctl>>

\* hitData := atomic.LoadUint64(&l.AclHitMax)
FastPathLoad(w) ==
    /\ wk[w].pc = "load"
    /\ wk' = [wk EXCEPT ![w].pc = "cas", ![w].hitData = AclHitMax]
    /\ last' = Step
    /\ UNCHANGED <<label, idmap, ctl>>

\* if hitData < aclLen { atomic.CompareAndSwapUint64(&l.AclHitMax, hitData,
\* aclLen) }, tried once, and the return
FastPathSwap(w) ==
    /\ wk[w].pc = "cas"
    /\ AclHitMax' = IF /\ wk[w].hitData < Cardinality(wk[w].policy.acts)
                       /\ AclHitMax = wk[w].hitData
                    THEN Cardinality(wk[w].policy.acts)
                    ELSE AclHitMax
    /\ last' = Call("FastPath", wk[w].K, NoEndpoint, TRUE, wk[w].endpoint, wk[w].policy, 0)
    /\ wk' = [wk EXCEPT ![w] = IdleWorker]
    /\ UNCHANGED <<RawAcls, compiled, IpNetmaskMap, FastPolicyMaps, FirstPathHit,
                   FirstPathHitTick, FastPathHit, FastPathHitTick, idmap, ctl>>

----------------------------------------------------------------------------
(* The counter scenario: under the port rule and the wildcard rule, worker *)
(* 1 on queue 0 and the first tap and worker 2 on the last queue and the   *)
(* last tap each seed the fast path with their packet and then look it up  *)
(* at the same time.  The packet of worker 1 meets both rules, the packet  *)
(* of worker 2 the wildcard rule only.                                     *)

MaxHits == 2

HitAcls ==
    <<Acl(1, TAP_MIN, {10}, {30}, PortMap({80}), 6, 0),
      Acl(2, TAP_ANY, {}, {}, PortMap({}), 0, 0)>>

HitKey(w) ==
    IF w = 1 THEN LookupKey(1, 3, 1024, 80, 6, 0, TAP_MIN, 0, 0)
    ELSE LookupKey(1, 3, 1024, 80, 6, 0, TAP_MAX - 1, 0, QueueCount - 1)

\* the lookups that are under way
Running == {w \in Workers : wk[w].pc # "idle"}

NextHitMax ==
    \/ last.op = "NewPolicyLabel" /\ UpdateAcls(HitAcls)
    \/ \E w \in Workers :
          /\ last.op # "NewPolicyLabel" /\ Running = {} /\ FirstPathHit < MaxFirstPath
          /\ GetPolicyByFirstPath(Resolve(HitKey(w)), HitKey(w))
    \/ \E w \in Workers :
          /\ FastPathHit + Cardinality(Running) < MaxHits
          /\ FastPathFind(w, HitKey(w))
    \/ \E w \in Workers : FastPathCount(w)
    \/ \E w \in Workers : FastPathLoad(w)
    \/ \E w \in Workers : FastPathSwap(w)

SpecHitMax == Init /\ [][NextHitMax]_vars

\* C19: acl_hit_max never decreases, and once every GetPolicyByFastPath has
\* returned it is not below the action count of the policy the last hit
\* returned (it is the largest count any hit returned).
C19_HitMaxIsMaximum ==
    [][/\ AclHitMax' >= AclHitMax
       /\ (last'.op = "FastPath" /\ last'.ok /\ \A w \in Workers : wk'[w].pc = "idle")
          => AclHitMax' >= Cardinality(last'.policy.acts)]_vars

----------------------------------------------------------------------------
(* The key scenario: a worker looks up packets of hosts whose EPC ids are  *)
(* small, above 20 bits (L2EpcId = 2^20 + 1) or absent (L3EpcId = -1, the  *)
(* id 0xFFFFFFFF of addEpcMap), untagged and tagged.                       *)

EpcInfo(v) ==
    IF v = -1 THEN [GroupIds |-> {}, L2EpcId |-> 0, L3EpcId |-> -1]
    ELSE [GroupIds |-> {}, L2EpcId |-> v, L3EpcId |-> 0]

KeyEndpoints ==
    {[SrcInfo |-> EpcInfo(s), DstInfo |-> EpcInfo(d)] :
        s \in {1, 2, Pow20 + 1}, d \in {1, Pow20 + 1, -1}}

KeyPackets == {LookupKey(1, 2, 1024, 80, 6, vlan, TAP_MIN, 0, 0) : vlan \in {0, 100}}

NextKeys ==
    \/ \E E \in KeyEndpoints, K \in KeyPackets :
          FirstPathHit < MaxFirstPath /\ GetPolicyByFirstPath(E, K)
    \/ \E K \in KeyPackets : FastPathHit < MaxFastPath /\ GetPolicyByFastPath(K)

SpecKeys == Init /\ [][NextKeys]_vars

\* the forward keys GetPolicyByFirstPath seeds for a call under the tables
\* c, and the fields the keys are said to stand for
SeedPortKey(c, call) ==
    FastPortKey(EpcId(call.E.SrcInfo), EpcId(call.E.DstInfo),
                getFastInterestKeys(c, call.K).Proto,
                getFastInterestKeys(c, call.K).DstPort)

PortKeyFields(c, call) ==
    <<EpcId(call.E.SrcInfo)[2], EpcId(call.E.DstInfo)[2],
      getFastInterestKeys(c, call.K).Proto, getFastInterestKeys(c, call.K).DstPort>>

SeedVlanKey(call) ==
    FastVlanKey(call.K.Vlan, EpcId(call.E.SrcInfo), EpcId(call.E.DstInfo))

VlanKeyFields(call) ==
    <<EpcId(call.E.SrcInfo), EpcId(call.E.DstInfo)[2], call.K.Vlan>>

\* C20: the fast port-keys seeded by two calls are equal exactly when the
\* calls agree on (src_epc & 0xFFFFF, dst_epc & 0xFFFFF, proto, port), and
\* the fast vlan-keys of two tagged calls are equal exactly when the calls
\* agree on (first_epc, second_epc & 0xFFFFF, vlan).
C20_KeyPacking ==
    [][(last.op = "FirstPath" /\ last'.op = "FirstPath")
        => /\ (SeedPortKey(Tables, last) = SeedPortKey(Tables, last'))
              <=> (PortKeyFields(Tables, last) = PortKeyFields(Tables, last'))
           /\ (last.K.Vlan > 0 /\ last'.K.Vlan > 0)
              => ((SeedVlanKey(last) = SeedVlanKey(last'))
                  <=> (VlanKeyFields(last) = VlanKeyFields(last')))]_vars

----------------------------------------------------------------------------
(* The EPC scenario: a worker looks up a packet of host 1 to host 2 whose  *)
(* endpoints carry every sign combination of L2EpcId and L3EpcId, and then *)
(* asks the fast path for that packet and for packets of the same subnets  *)
(* whose source or destination MAC it has never seen.                      *)

EpcInfos ==
    {[GroupIds |-> {}, L2EpcId |-> l2, L3EpcId |-> l3] :
        l2 \in {-1, 0, 1}, l3 \in {-2, -1, 0, 2}}

EpcEndpoints ==
    {[SrcInfo |-> s, DstInfo |-> d] :
        s \in EpcInfos,
        d \in {[GroupIds |-> {}, L2EpcId |-> 0, L3EpcId |-> -1],
               [GroupIds |-> {}, L2EpcId |-> -1, L3EpcId |-> 2]}}

EpcPacket == LookupKey(1, 2, 1024, 80, 6, 0, TAP_MIN, 0, 0)

\* the packet, and the packet sent from or to a MAC that was never seeded
EpcQueries ==
    {EpcPacket, [EpcPacket EXCEPT !.SrcMac = 7], [EpcPacket EXCEPT !.DstMac = 7]}

NextEpc ==
    \/ \E E \in EpcEndpoints :
          FirstPathHit < MaxFirstPath /\ GetPolicyByFirstPath(E, EpcPacket)
    \/ \E K \in EpcQueries : FastPathHit < MaxFastPath /\ GetPolicyByFastPath(K)

SpecEpc == Init /\ [][NextEpc]_vars

\* the id the mapping is said to give an EndpointInfo
ClaimedEpc(info) ==
    IF info.L2EpcId > 0 THEN U32(info.L2EpcId)
    ELSE IF info.L3EpcId > 0 THEN U32(info.L3EpcId)
    ELSE IF info.L3EpcId = -1 THEN U32Max
    ELSE U32(0)

\* mac_epc of the VlanAndPortMap a packet's direction leads to in fp, the
\* empty map when there is none
MacEpcOf(fp, packet, direction) ==
    IF LruHas(fp[packet.FastIndex][packet.Tap], SubnetKey(packet, direction))
    THEN LruValue(fp[packet.FastIndex][packet.Tap], SubnetKey(packet, direction)).macEpcMap
    ELSE LruNew(FAST_PATH_EPC_MAP_SIZE_LIMIT)

MacKnown(fp, packet, direction, mac) == LruHas(MacEpcOf(fp, packet, direction), mac)

\* C21: after GetPolicyByFirstPath(E, K) mac_epc holds for K's source MAC
\* the id of E's source and for K's destination MAC the id of E's
\* destination: l2_epc_id if it is positive, otherwise l3_epc_id if it is
\* positive, otherwise 0xFFFFFFFF if l3_epc_id is -1, otherwise 0.  A
\* GetPolicyByFastPath whose source or destination MAC is not in mac_epc
\* is a miss.
C21_MacEpc ==
    [][/\ last'.op = "FirstPath"
          => \A d \in Directions :
                /\ MacKnown(FastPolicyMaps', last'.K, d, last'.K.SrcMac)
                /\ MacKnown(FastPolicyMaps', last'.K, d, last'.K.DstMac)
                /\ LruValue(MacEpcOf(FastPolicyMaps', last'.K, d), last'.K.SrcMac)
                   = ClaimedEpc(last'.E.SrcInfo)
                /\ LruValue(MacEpcOf(FastPolicyMaps', last'.K, d), last'.K.DstMac)
                   = ClaimedEpc(last'.E.DstInfo)
       /\ (/\ last'.op = "FastPath"
           /\ \E d \in Directions :
                 \/ ~MacKnown(FastPolicyMaps, last'.K, d, last'.K.SrcMac)
                 \/ ~MacKnown(FastPolicyMaps, last'.K, d, last'.K.DstMac))
          => ~last'.ok]_vars

----------------------------------------------------------------------------
(* Out-of-order packets in the freshness scenario: the seeds are stamped 0 *)
(* or 90, the queries 30, 90 or 120, in any order.                         *)

\* the stored timestamps of one sub-LRU, each with the place it is stored at
CacheStamps(cache, place) ==
    {<<place, k, LruValue(cache, k).timestamp>> : k \in LruKeys(cache)}

\* the stored timestamps of the port and vlan entries of one tap's cache
MapStamps(fm, place) ==
    UNION {CacheStamps(LruValue(fm, skey).portPolicyMap, <<place, skey, "port">>)
           \cup CacheStamps(LruValue(fm, skey).vlanPolicyMap, <<place, skey, "vlan">>) :
               skey \in LruKeys(fm)}

\* <<place, key, timestamp>> of every fast-path entry of every queue and tap
Stamps(fp) == UNION {MapStamps(fp[q][tap], <<q, tap>>) : q \in Queues, tap \in Taps}

\* the place and key a sub-lookup of a query of packet reads in fp, if the
\* subnet pair is cached and both MACs are known
ReadAt(fp, packet, sub) ==
    LET fm == fp[packet.FastIndex][packet.Tap]
        skey == SubnetKey(packet, sub[2])
        place == <<<<packet.FastIndex, packet.Tap>>, skey, sub[1]>>
    IN  IF ~LruHas(fm, skey) THEN {}
        ELSE LET m == MacLookup(LruValue(fm, skey), packet)
             IN  IF ~m.ok THEN {}
                 ELSE IF sub[1] = "vlan"
                      THEN {<<place, getFastVlanPolicyKey(m, packet, sub[2])>>}
                      ELSE {<<place, getFastPortPolicyKey(m, packet, sub[2])>>}

Reads(fp, packet) == UNION {ReadAt(fp, packet, sub) : sub \in SubLookups(packet)}

\* the entries whose stored timestamp differs between two caches
Restamped(fp, fq) ==
    {<<s, t[3]>> : <<s, t>> \in {st \in Stamps(fp) \X Stamps(fq) :
                                    /\ st[1][1] = st[2][1] /\ st[1][2] = st[2][2]
                                    /\ st[1][3] # st[2][3]}}

\* the entry is not older than the query
NotOlder(e, packet) == e.present /\ packet.Timestamp <= e.timestamp

\* C22: a GetPolicyByFastPath whose timestamp is less than or equal to the
\* stored timestamp of an entry it reads does not remove the entry, and the
\* sub-lookup counts as a hit: the query hits when none of the entries it
\* reads is missing or more than 60 s older than the query.  A stored
\* timestamp is changed only by GetPolicyByFirstPath or by a
\* GetPolicyByFastPath that reads the entry and does not find it expired,
\* and then becomes the query's timestamp.
C22_OutOfOrder ==
    [][/\ last'.op = "FastPath" =>
            \A packet \in {getFastInterestKeys(Tables, last'.K)} :
               /\ \A before \in {Entries(FastPolicyMaps[packet.FastIndex][packet.Tap], packet)},
                     after \in {Entries(FastPolicyMaps'[packet.FastIndex][packet.Tap], packet)} :
                     /\ \A b \in before, a \in after :
                           (a[1] = b[1] /\ NotOlder(b[2], packet)) => a[2].present
                     /\ (/\ \E b \in before : NotOlder(b[2], packet)
                         /\ \A b \in before : b[2].present /\ ~Expired(b[2], packet))
                        => last'.ok
               /\ \A r \in Restamped(FastPolicyMaps, FastPolicyMaps') :
                     /\ <<r[1][1], r[1][2]>> \in Reads(FastPolicyMaps, packet)
                     /\ ~(packet.Timestamp - r[1][3] > POLICY_TIMEOUT)
                     /\ r[2] = packet.Timestamp
       /\ last'.op \notin {"FastPath", "FirstPath"}
            => Restamped(FastPolicyMaps, FastPolicyMaps') = {}]_vars

\* C22 witness: a tagged packet was seeded at 90 and the untagged query of
\* the same hosts at 30 hit: the port entries are now stamped 30, the vlan
\* entry still 90
C22_Witness ==
    /\ last.op = "FastPath" /\ last.ok
    /\ last.K.Timestamp = 30 /\ last.K.Vlan = 0
    /\ FirstPathHit = 1 /\ FastPathHit = 1
    /\ \E s \in Stamps(FastPolicyMaps) : s[1][3] = "vlan" /\ s[3] = 90
    /\ \A s \in Stamps(FastPolicyMaps) : s[1][3] = "port" => s[3] = 30

\* C23: over the seedings and queries of one worker, in any order of their
\* timestamps, the stored timestamp of a fast-path entry never decreases (so
\* that the freshness check removes an entry only when the query is more
\* than POLICY_TIMEOUT later than the latest seeding or hit of the entry).
C23_StampNeverDecreases ==
    [][last'.op \in {"FirstPath", "FastPath"} =>
          \A r \in Restamped(FastPolicyMaps, FastPolicyMaps') : r[2] >= r[1][3]]_vars

----------------------------------------------------------------------------
(* The reverse-packet scenario: under a rule base published once, one      *)
(* worker looks a packet up on the slow path and then asks the fast path   *)
(* for the packet of the opposite direction.                               *)

\* the packet of the opposite direction: addresses, MACs and ports swapped
ReverseKey(K) ==
    [K EXCEPT !.SrcIp = K.DstIp, !.DstIp = K.SrcIp,
              !.SrcMac = K.DstMac, !.DstMac = K.SrcMac,
              !.SrcPort = K.DstPort, !.DstPort = K.SrcPort]

\* a policy with every direction tag flipped
FlipPolicy(p) ==
    [acts |-> p.acts, tags |-> {<<t[1], ReverseDirection(t[2])>> : t \in p.tags}]

NextReverse ==
    \/ \E acls \in TierRuleBases : last.op = "NewPolicyLabel" /\ UpdateAcls(acls)
    \/ \E K \in TierKeys :
          FirstPathHit < MaxFirstPath /\ GetPolicyByFirstPath(Resolve(K), K)
    \/ \E K \in TierKeys :
          FastPathHit < MaxFastPath /\ GetPolicyByFastPath(ReverseKey(K))

SpecReverse == Init /\ [][NextReverse]_vars

\* C24: the GetPolicyByFastPath of the reversed key that immediately follows
\* GetPolicyByFirstPath(E, K) on the same worker is a hit, returns E with
\* SrcInfo and DstInfo swapped, and its policy is the policy returned for K
\* with every direction tag flipped, which is the policy the slow path
\* computes for the reversed key.
C24_ReverseSymmetry ==
    [][(last.op = "FirstPath" /\ last'.op = "FastPath" /\ last'.K = ReverseKey(last.K))
        => /\ last'.ok
           /\ last'.ep = SwapEndpoint(last.E)
           /\ last'.policy = FlipPolicy(last.policy)
           /\ \A f \in {FirstPathFind(Tables, SwapEndpoint(last.E), last'.K)} :
                 last'.policy = IF f.found THEN f.findPolicy ELSE EmptyPolicy]_vars

====
